---- MODULE Spec2Model ----
(***************************************************************************)
(* SumoNetVis: network graph, linking pass and lane marking synthesis.     *)
(*                                                                         *)
(* Lengths are integers in centimetres (3.2 m = 320).  A string holding a  *)
(* space-separated list is the sequence of its words ("" is <<>>).  A lane *)
(* id "{edgeId}_{laneIndex}" is the pair <<edgeId, laneIndex>>; the absent *)
(* lane id / lane reference (Python None) is <<>>.  An Allowance mask is   *)
(* the set of vehicle classes whose bit is set.  Shapely geometry is kept  *)
(* as terms: a record naming the shapely call and its arguments.           *)
(***************************************************************************)
EXTENDS Integers, Sequences, FiniteSets, TLC

VARIABLES
    net,                        \* the Net object: edges, junctions, connections
    LANE_MARKINGS_STYLE,        \* Net.LANE_MARKINGS_STYLE
    PLOT_STOP_LINES,            \* Net.PLOT_STOP_LINES
    STRIPE_WIDTH_SCALE_FACTOR,  \* Net.STRIPE_WIDTH_SCALE_FACTOR
    BUS_STOP_STYLE,             \* Additionals.BUS_STOP_STYLE
    ret,                        \* what the last call returned or raised
    obs                         \* log of the last _guess_lane_markings call (SpecSettings, SpecRepeat)

vars == <<net, LANE_MARKINGS_STYLE, PLOT_STOP_LINES, STRIPE_WIDTH_SCALE_FACTOR,
          BUS_STOP_STYLE, ret, obs>>

----------------------------------------------------------------------------
(* Python values *)

None == "None"
NoLane == <<>>

Return(v) == [raised |-> None, value |-> v]
Raise(e) == [raised |-> e, value |-> None]

Range(s) == {s[i] : i \in DOMAIN s}

\* list.reverse() / reversed(list)
Reverse(s) == [i \in DOMAIN s |-> s[Len(s) + 1 - i]]

\* list.index(x): 0-based position of the first occurrence, -1 when absent
IndexOf(s, x) ==
    IF \E i \in DOMAIN s : s[i] = x
    THEN (CHOOSE i \in DOMAIN s : s[i] = x /\ \A j \in 1..(i-1) : s[j] # x) - 1
    ELSE -1

----------------------------------------------------------------------------
(* _Utils.Object3D and the Wavefront OBJ text *)

\* A shapely shape is [type, outlines]: the geometry type and the coordinate sequences
\* from_shape reads (the boundary of each polygon, the coordinates of each line).
Shape(type, outlines) == [type |-> type, outlines |-> outlines]

\* the absent shape (Python None)
NoShape == Shape(None, <<>>)

\* shapely LineString(coords), for two or more coordinate pairs
LineString(coords) == Shape("LineString", <<coords>>)

\* shapely Polygon(coords), for three or more coordinate pairs: the boundary is the ring,
\* closed with its first point when the list is not closed already
Polygon(coords) ==
    Shape("Polygon", << IF coords[1] = coords[Len(coords)] THEN coords ELSE Append(coords, coords[1]) >>)

\* shape.is_empty
is_empty(shape) == \A k \in DOMAIN shape.outlines : shape.outlines[k] = <<>>

Object3D(name, material, vertices, faces, lines) ==
    [name |-> name, material |-> material, vertices |-> vertices, faces |-> faces, lines |-> lines]

\* [i+1 for i in range(v_offset, v_offset+edge_len)]
IndexRun(v_offset, edge_len) == [k \in 1..edge_len |-> v_offset + k]

\* mutant: the bottom face lists the bottom vertices in the order of the top face
ExtrudeOutline_bottom_unreversed(acc, outline, z, extrude_height, include_bottom_face, include_top_face) ==
    LET v_offset == Len(acc.vertices)
        edge_len == Len(outline)
        top_vertices == [k \in 1..edge_len |-> <<outline[k][1], outline[k][2], z + extrude_height>>]
        bottom_vertices == [k \in 1..edge_len |-> <<outline[k][1], outline[k][2], z>>]
        top_faces == IF include_top_face THEN <<IndexRun(v_offset, edge_len)>> ELSE <<>>
        side_faces == [k \in 1..(edge_len - 1) |->
                          LET i == v_offset + k - 1
                          IN  <<i + edge_len + 1, i + edge_len + 2, i + 2, i + 1>>]
        bottom_faces == IF include_bottom_face
                        THEN << [k \in 1..edge_len |-> v_offset + k + edge_len] >>
                        ELSE <<>>
    IN  [vertices |-> acc.vertices \o top_vertices
                         \o (IF extrude_height # 0 THEN bottom_vertices ELSE <<>>),
         faces |-> acc.faces \o top_faces
                      \o (IF extrude_height # 0 THEN side_faces \o bottom_faces ELSE <<>>),
         lines |-> IF ~include_top_face /\ extrude_height = 0 /\ ~include_bottom_face
                   THEN <<IndexRun(v_offset, edge_len)>>
                   ELSE acc.lines]

\* one pass of the loop over the outlines: acc holds vertices, faces and lines so far
ExtrudeOutline(acc, outline, z, extrude_height, include_bottom_face, include_top_face) ==
    LET v_offset == Len(acc.vertices)
        edge_len == Len(outline)
        top_vertices == [k \in 1..edge_len |-> <<outline[k][1], outline[k][2], z + extrude_height>>]
        bottom_vertices == [k \in 1..edge_len |-> <<outline[k][1], outline[k][2], z>>]
        top_faces == IF include_top_face THEN <<IndexRun(v_offset, edge_len)>> ELSE <<>>
        side_faces == [k \in 1..(edge_len - 1) |->
                          LET i == v_offset + k - 1
                          IN  <<i + edge_len + 1, i + edge_len + 2, i + 2, i + 1>>]
        \* i runs over reversed(range(v_offset, v_offset+edge_len))
        bottom_faces == IF include_bottom_face
                        THEN << [k \in 1..edge_len |-> (v_offset + edge_len - k) + edge_len + 1] >>
                        ELSE <<>>
    IN  [vertices |-> acc.vertices \o top_vertices
                         \o (IF extrude_height # 0 THEN bottom_vertices ELSE <<>>),
         faces |-> acc.faces \o top_faces
                      \o (IF extrude_height # 0 THEN side_faces \o bottom_faces ELSE <<>>),
         lines |-> IF ~include_top_face /\ extrude_height = 0 /\ ~include_bottom_face
                   THEN <<IndexRun(v_offset, edge_len)>>
                   ELSE acc.lines]

RECURSIVE ExtrudeOutlines(_, _, _, _, _, _, _)
ExtrudeOutlines(acc, outlines, k, z, extrude_height, include_bottom_face, include_top_face) ==
    IF k > Len(outlines) THEN acc
    ELSE ExtrudeOutlines(ExtrudeOutline(acc, outlines[k], z, extrude_height,
                                        include_bottom_face, include_top_face),
                         outlines, k + 1, z, extrude_height, include_bottom_face, include_top_face)

\* Object3D.from_shape
from_shape(shape, name, material, z, extrude_height, include_bottom_face, include_top_face) ==
    IF ~(shape.type \in {"MultiPolygon", "Polygon", "MultiLineString", "LineString"})
    THEN Raise("NotImplementedError")
    ELSE LET linear == shape.type \in {"MultiLineString", "LineString"}
             bottom == IF linear THEN FALSE ELSE include_bottom_face
             top == IF linear THEN FALSE ELSE include_top_face
             mesh == ExtrudeOutlines([vertices |-> <<>>, faces |-> <<>>, lines |-> <<>>],
                                     shape.outlines, 1, z, extrude_height, bottom, top)
         IN  Return(Object3D(name, material, mesh.vertices, mesh.faces, mesh.lines))

\* The OBJ text is the sequence of its lines, a line being its keyword and its
\* space-separated fields; "\n\n" ends the object's last line and adds an empty one.
TextLine(tag, data) == [tag |-> tag, data |-> data]

Shifted(indices, vertex_count) == [k \in DOMAIN indices |-> indices[k] + vertex_count]

\* mutant: the indices are written as the object holds them
ObjectText_local_indices(object, material_mapping, vertex_count) ==
    << TextLine("o", <<object.name>>),
       TextLine("usemtl", << IF object.material \in DOMAIN material_mapping
                             THEN material_mapping[object.material] ELSE object.material >>) >>
    \o (IF object.vertices = <<>> THEN << TextLine("v", <<>>) >>
        ELSE [k \in DOMAIN object.vertices |-> TextLine("v", object.vertices[k])])
    \o [k \in DOMAIN object.faces |-> TextLine("f", object.faces[k])]
    \o [k \in DOMAIN object.lines |-> TextLine("l", object.lines[k])]
    \o << TextLine("", <<>>) >>

\* the text one pass of the loop over the objects adds
ObjectText(object, material_mapping, vertex_count) ==
    << TextLine("o", <<object.name>>),
       TextLine("usemtl", << IF object.material \in DOMAIN material_mapping
                             THEN material_mapping[object.material] ELSE object.material >>) >>
    \o (IF object.vertices = <<>> THEN << TextLine("v", <<>>) >>
        ELSE [k \in DOMAIN object.vertices |-> TextLine("v", object.vertices[k])])
    \o [k \in DOMAIN object.faces |-> TextLine("f", Shifted(object.faces[k], vertex_count))]
    \o [k \in DOMAIN object.lines |-> TextLine("l", Shifted(object.lines[k], vertex_count))]
    \o << TextLine("", <<>>) >>

RECURSIVE ObjectsText(_, _, _, _)
ObjectsText(objects, material_mapping, k, vertex_count) ==
    IF k > Len(objects) THEN <<>>
    ELSE ObjectText(objects[k], material_mapping, vertex_count)
         \o ObjectsText(objects, material_mapping, k + 1, vertex_count + Len(objects[k].vertices))

\* material_mapping is a function from material names to names (None: the empty one)
generate_obj_text_from_objects(objects, material_mapping) ==
    ObjectsText(objects, material_mapping, 1, 0)

----------------------------------------------------------------------------
(* _Utils.Allowance *)

vClass_list ==
    << "private", "emergency", "authority", "army", "vip", "pedestrian", "passenger", "hov", "taxi",
       "bus", "coach", "delivery", "truck", "trailer", "motorcycle", "moped", "bicycle", "evehicle",
       "tram", "rail_urban", "rail", "rail_electric", "rail_fast", "ship", "custom1", "custom2" >>

VClasses == Range(vClass_list)

Allowance(allow_string, disallow_string) ==
    LET allows == IF allow_string \in {<<"all">>, <<>>} THEN VClasses
                  ELSE IF allow_string = <<"none">> THEN {}
                  ELSE Range(allow_string)
        disallows == IF disallow_string = <<"all">> THEN VClasses
                     ELSE IF disallow_string = <<>> THEN {}
                     ELSE Range(disallow_string)
    IN  {c \in VClasses : c \in allows /\ ~(c \in disallows)}

\* Allowance.allows / __getitem__ / __call__ with one class, for a known class name
allows(mask, vClass) ==
    IF vClass = "all" THEN mask = VClasses
    ELSE IF vClass = "none" THEN mask = {}
    ELSE vClass \in mask

is_superset_of(mask, other) == \A c \in other : c \in mask

\* Allowance.__eq__ against a string: the string becomes Allowance(other)
Allowance_eq(mask, other) == mask = Allowance(other, <<>>)

Allowance_add(mask, other) == mask \cup other

\* Allowance.allows with any argument
Allowance_allows(mask, vClass) ==
    IF vClass \in {"all", "none"} \cup VClasses THEN Return(allows(mask, vClass))
    ELSE Raise("IndexError")

\* " ".join(vClass_list[mask]): the classes of the mask in list order
get_allow_string(mask) ==
    IF mask = VClasses THEN <<"all">>
    ELSE IF mask = {} THEN <<"none">>
    ELSE SelectSeq(vClass_list, LAMBDA c : c \in mask)

\* mutant: the two special cases of the disallow string answer as the allow string does
get_disallow_string_swapped(mask) ==
    IF mask = VClasses THEN <<"all">>
    ELSE IF mask = {} THEN <<"none">>
    ELSE SelectSeq(vClass_list, LAMBDA c : ~(c \in mask))

get_disallow_string(mask) ==
    IF mask = VClasses THEN <<"none">>
    ELSE IF mask = {} THEN <<"all">>
    ELSE SelectSeq(vClass_list, LAMBDA c : ~(c \in mask))

\* mutant: the new Allowance keeps a copy of the mask, not inverted
Allowance_invert_copy(mask) == mask

\* Allowance.__invert__: the mask of the Allowance returned
Allowance_invert(mask) == {c \in VClasses : ~(c \in mask)}

----------------------------------------------------------------------------
(* Net: object construction *)

DEFAULT_LANE_WIDTH == 320

Alignment(lane_id, length) == [kind |-> "centerline", lane |-> lane_id, length |-> length]

_Edge(id, function, from, to) ==
    [id |-> id, function |-> function,
     from_junction_id |-> from, to_junction_id |-> to,
     from_junction |-> None, to_junction |-> None,
     lanes |-> <<>>, stop_offsets |-> <<>>]

_Lane(id, index, allow_string, disallow_string, width, length) ==
    [id |-> id, index |-> index,
     allows |-> Allowance(allow_string, disallow_string),
     width |-> width,
     alignment |-> Alignment(id, length),
     parentEdge |-> None,
     stop_offsets |-> <<>>,
     incoming_connections |-> <<>>, outgoing_connections |-> <<>>,
     requests |-> <<>>]

\* _Edge.append_stop_offset / _Lane.append_stop_offset
append_stop_offset(obj, value, vc, exceptions) ==
    [obj EXCEPT !.stop_offsets = Append(@, <<value, Allowance(vc, exceptions)>>)]

append_lane(edge, lane) ==
    [edge EXCEPT !.lanes = Append(@, [lane EXCEPT !.parentEdge = edge.id])]

_Request(index, response) == [index |-> index, response |-> response, parentJunction |-> None]

\* shape: the coordinate pairs of the shape attribute, <<>> when the element has none
_Junction(id, type, incLanes, intLanes, shape) ==
    [id |-> id, type |-> type,
     incLane_ids |-> incLanes, intLane_ids |-> intLanes,
     incLanes |-> <<>>, intLanes |-> <<>>, requests |-> <<>>,
     shape |-> IF Len(shape) > 2 THEN Polygon(shape) ELSE NoShape]

append_request(junction, request) ==
    [junction EXCEPT !.requests = Append(@, [request EXCEPT !.parentJunction = junction.id])]

\* shape: the coordinate pairs of the shape attribute, <<>> when the element has none
_Connection(from, fromLane, to, toLane, via, shape) ==
    [from_edge_id |-> from, to_edge_id |-> to,
     from_edge |-> None, to_edge |-> None,
     from_lane_index |-> fromLane, to_lane_index |-> toLane,
     from_lane |-> NoLane, to_lane |-> NoLane,
     via_id |-> via, via_lane |-> NoLane,
     shape |-> IF shape # <<>> THEN LineString(shape) ELSE NoShape]

----------------------------------------------------------------------------
(* Net: lookups *)

\* position of the object with the given id in a list of objects, 0 when absent
PosById(objs, id) ==
    IF \E k \in DOMAIN objs : objs[k].id = id
    THEN CHOOSE k \in DOMAIN objs : objs[k].id = id
    ELSE 0

\* dict.get(id, None) on Net.edges / Net.junctions: the reference is the id
DictGet(objs, id) == IF PosById(objs, id) = 0 THEN None ELSE id

EdgeOf(n, edge_id) == n.edges[PosById(n.edges, edge_id)]
JunctionOf(n, junction_id) == n.junctions[PosById(n.junctions, junction_id)]

\* position in edge.lanes of the first lane with the given index, 0 when absent
LanePos(edge, index) ==
    IF \E p \in DOMAIN edge.lanes : edge.lanes[p].index = index
    THEN CHOOSE p \in DOMAIN edge.lanes :
            /\ edge.lanes[p].index = index
            /\ \A q \in 1..(p-1) : edge.lanes[q].index # index
    ELSE 0

\* _Edge.get_lane
get_lane(edge, index) ==
    IF LanePos(edge, index) = 0 THEN Raise("IndexError")
    ELSE Return(<<edge.id, index>>)

lane_count(edge) == Len(edge.lanes)

\* the lane object behind a lane reference
LaneOf(n, ref) == LET e == EdgeOf(n, ref[1]) IN e.lanes[LanePos(e, ref[2])]

\* Net._get_lane: split the id into edge id and lane number
_get_lane(n, lane_id) ==
    LET edge_id == lane_id[1]
        lane_num == lane_id[2]
    IN  IF DictGet(n.edges, edge_id) = None THEN Return(NoLane)
        ELSE get_lane(EdgeOf(n, edge_id), lane_num)

\* Net._get_connections_from_lane: the connections (positions) leaving the lane id
_get_connections_from_lane(n, lane_id) ==
    SelectSeq([k \in DOMAIN n.connections |-> k],
              LAMBDA k : <<n.connections[k].from_edge_id, n.connections[k].from_lane_index>> = lane_id)

\* _Junction.get_request_by_index
get_request_by_index(junction, index) ==
    IF \E k \in DOMAIN junction.requests : junction.requests[k].index = index
    THEN Return(junction.requests[CHOOSE k \in DOMAIN junction.requests :
                    /\ junction.requests[k].index = index
                    /\ \A m \in 1..(k-1) : junction.requests[m].index # index])
    ELSE Raise("IndexError")

\* _Junction.get_request_by_int_lane
get_request_by_int_lane(junction, lane_id) ==
    IF IndexOf(junction.intLane_ids, lane_id) = -1 THEN Raise("IndexError")
    ELSE get_request_by_index(junction, IndexOf(junction.intLane_ids, lane_id))

----------------------------------------------------------------------------
(* Net._link_objects *)

\* link junctions to edges
LinkEdges(n) ==
    [n EXCEPT !.edges =
        [k \in DOMAIN n.edges |->
            [n.edges[k] EXCEPT
                !.from_junction = DictGet(n.junctions, n.edges[k].from_junction_id),
                !.to_junction = DictGet(n.junctions, n.edges[k].to_junction_id)]]]

AppendOutgoing(n, ref, k) ==
    IF ref = NoLane THEN n
    ELSE LET e == PosById(n.edges, ref[1])
             p == LanePos(n.edges[e], ref[2])
         IN  [n EXCEPT !.edges[e].lanes[p].outgoing_connections = Append(@, k)]

AppendIncoming(n, ref, k) ==
    IF ref = NoLane THEN n
    ELSE LET e == PosById(n.edges, ref[1])
             p == LanePos(n.edges[e], ref[2])
         IN  [n EXCEPT !.edges[e].lanes[p].incoming_connections = Append(@, k)]

AppendRequests(n, ref, reqs) ==
    LET e == PosById(n.edges, ref[1])
        p == LanePos(n.edges[e], ref[2])
    IN  [n EXCEPT !.edges[e].lanes[p].requests = @ \o reqs]

\* link edges and lanes to one connection (the body of the loop over connections)
LinkConnection(n, k) ==
    LET c == n.connections[k]
        via == IF c.via_id # NoLane THEN _get_lane(n, c.via_id) ELSE Return(c.via_lane)
        from_edge == DictGet(n.edges, c.from_edge_id)
        from == IF from_edge # None THEN get_lane(EdgeOf(n, from_edge), c.from_lane_index)
                ELSE Return(c.from_lane)
        to_edge == DictGet(n.edges, c.to_edge_id)
        to == IF to_edge # None THEN get_lane(EdgeOf(n, to_edge), c.to_lane_index)
              ELSE Return(c.to_lane)
        linked == [c EXCEPT !.via_lane = via.value,
                            !.from_edge = from_edge, !.from_lane = from.value,
                            !.to_edge = to_edge, !.to_lane = to.value]
        n1 == [n EXCEPT !.connections[k] = linked]
        n2 == IF from_edge # None THEN AppendOutgoing(n1, from.value, k) ELSE n1
        n3 == IF to_edge # None THEN AppendIncoming(n2, to.value, k) ELSE n2
    IN  IF via.raised # None THEN via
        ELSE IF from.raised # None THEN from
        ELSE IF to.raised # None THEN to
        ELSE Return(n3)

RECURSIVE LinkConnections(_, _)
LinkConnections(r, k) ==
    IF r.raised # None \/ k > Len(r.value.connections) THEN r
    ELSE LinkConnections(LinkConnection(r.value, k), k + 1)

\* resolve a list of lane ids, keeping the lanes that exist
RECURSIVE ResolveLanes(_, _, _, _)
ResolveLanes(n, ids, i, acc) ==
    IF i > Len(ids) THEN Return(acc)
    ELSE LET l == _get_lane(n, ids[i])
         IN  IF l.raised # None THEN l
             ELSE ResolveLanes(n, ids, i + 1, IF l.value # NoLane THEN Append(acc, l.value) ELSE acc)

\* "look one level deeper": the requests of the connections leaving the via lane
RECURSIVE SecondLevelRequests(_, _, _, _, _)
SecondLevelRequests(n, junction, cxns_internal, i, reqs) ==
    IF i > Len(cxns_internal) THEN Return(reqs)
    ELSE LET cxni == n.connections[cxns_internal[i]]
             req == get_request_by_int_lane(junction, cxni.via_id)
         IN  IF req.raised # None THEN req
             ELSE SecondLevelRequests(n, junction, cxns_internal, i + 1, Append(reqs, req.value))

\* mutant: a via lane without a request of its own contributes nothing
ConnectionRequests_first_level(n, junction, cxn) ==
    IF cxn.via_id = NoLane THEN Return(<<>>)
    ELSE LET req == get_request_by_int_lane(junction, cxn.via_id)
         IN  IF req.raised = None THEN Return(<<req.value>>)
             ELSE Return(<<>>)

\* the requests one outgoing connection contributes to its from-lane
ConnectionRequests(n, junction, cxn) ==
    IF cxn.via_id = NoLane THEN Return(<<>>)
    ELSE LET req == get_request_by_int_lane(junction, cxn.via_id)
         IN  IF req.raised = None THEN Return(<<req.value>>)
             ELSE SecondLevelRequests(n, junction, _get_connections_from_lane(n, cxn.via_id), 1, <<>>)

RECURSIVE LinkLaneRequests(_, _, _, _)
LinkLaneRequests(r, junction, lane, i) ==
    IF r.raised # None THEN r
    ELSE LET n == r.value
             out == LaneOf(n, lane).outgoing_connections
         IN  IF i > Len(out) THEN r
             ELSE LET reqs == ConnectionRequests(n, junction, n.connections[out[i]])
                  IN  IF reqs.raised # None THEN reqs
                      ELSE LinkLaneRequests(Return(AppendRequests(n, lane, reqs.value)), junction, lane, i + 1)

RECURSIVE LinkIncLanes(_, _, _)
LinkIncLanes(r, j, i) ==
    IF r.raised # None THEN r
    ELSE LET junction == r.value.junctions[j]
         IN  IF i > Len(junction.incLanes) THEN r
             ELSE LinkIncLanes(LinkLaneRequests(r, junction, junction.incLanes[i], 1), j, i + 1)

\* make the junction-related links of one junction (the body of the loop over junctions)
LinkJunction(n, j) ==
    LET junction == n.junctions[j]
        inc == ResolveLanes(n, junction.incLane_ids, 1, junction.incLanes)
        int == ResolveLanes(n, junction.intLane_ids, 1, junction.intLanes)
    IN  IF junction.type = "internal" THEN Return(n)
        ELSE IF inc.raised # None THEN inc
        ELSE IF int.raised # None THEN int
        ELSE LinkIncLanes(Return([n EXCEPT !.junctions[j].incLanes = inc.value,
                                           !.junctions[j].intLanes = int.value]), j, 1)

RECURSIVE LinkJunctions(_, _)
LinkJunctions(r, j) ==
    IF r.raised # None \/ j > Len(r.value.junctions) THEN r
    ELSE LinkJunctions(LinkJunction(r.value, j), j + 1)

_link_objects(n) == LinkJunctions(LinkConnections(Return(LinkEdges(n)), 1), 1)

----------------------------------------------------------------------------
(* _Lane: type, stop lines *)

USA_STYLE == "USA"
EUR_STYLE == "EUR"

\* mutant: the passenger test made before the test for the empty allowance
lane_type_passenger_first(n, lane) ==
    IF Allowance_eq(lane.allows, <<"pedestrian">>)
    THEN IF lane.parentEdge # None /\ EdgeOf(n, lane.parentEdge).function = "crossing"
         THEN "crosswalk"
         ELSE "pedestrian"
    ELSE IF Allowance_eq(lane.allows, <<"bicycle">>) THEN "bicycle"
    ELSE IF Allowance_eq(lane.allows, <<"ship">>) THEN "ship"
    ELSE IF Allowance_eq(lane.allows, <<"authority">>) THEN "authority"
    ELSE IF ~allows(lane.allows, "passenger") THEN "no_passenger"
    ELSE IF Allowance_eq(lane.allows, <<"none">>) THEN "none"
    ELSE "other"

\* _Lane.lane_type
lane_type(n, lane) ==
    IF Allowance_eq(lane.allows, <<"pedestrian">>)
    THEN IF lane.parentEdge # None /\ EdgeOf(n, lane.parentEdge).function = "crossing"
         THEN "crosswalk"
         ELSE "pedestrian"
    ELSE IF Allowance_eq(lane.allows, <<"bicycle">>) THEN "bicycle"
    ELSE IF Allowance_eq(lane.allows, <<"ship">>) THEN "ship"
    ELSE IF Allowance_eq(lane.allows, <<"authority">>) THEN "authority"
    ELSE IF Allowance_eq(lane.allows, <<"none">>) THEN "none"
    ELSE IF ~allows(lane.allows, "passenger") THEN "no_passenger"
    ELSE "other"

\* mutant: the index counted from the outside
inverse_lane_index_outside(n, lane) == lane.index

\* _Lane.inverse_lane_index
inverse_lane_index(n, lane) == lane_count(EdgeOf(n, lane.parentEdge)) - lane.index - 1

RECURSIVE AccrueClasses(_, _)
AccrueClasses(stop_offsets, i) ==
    IF i = 0 THEN Allowance(<<"none">>, <<>>)
    ELSE Allowance_add(AccrueClasses(stop_offsets, i - 1), stop_offsets[i][2])

\* mutant: the parent edge's rules are used along with the lane's own
get_stop_line_locations_inherits(n, lane) ==
    LET stop_offsets == lane.stop_offsets
                        \o (IF lane.parentEdge # None THEN EdgeOf(n, lane.parentEdge).stop_offsets
                            ELSE <<>>)
        accrued_vClasses == AccrueClasses(stop_offsets, Len(stop_offsets))
        stop_line_locations == [i \in DOMAIN stop_offsets |-> stop_offsets[i][1]]
    IN  IF ~is_superset_of(accrued_vClasses, lane.allows) /\ ~(0 \in Range(stop_line_locations))
        THEN Append(stop_line_locations, 0)
        ELSE stop_line_locations

\* _Lane.get_stop_line_locations
get_stop_line_locations(n, lane) ==
    LET stop_offsets == IF Len(lane.stop_offsets) > 0 THEN lane.stop_offsets
                        ELSE IF lane.parentEdge # None THEN EdgeOf(n, lane.parentEdge).stop_offsets
                        ELSE <<>>
        accrued_vClasses == AccrueClasses(stop_offsets, Len(stop_offsets))
        stop_line_locations == [i \in DOMAIN stop_offsets |-> stop_offsets[i][1]]
    IN  IF ~is_superset_of(accrued_vClasses, lane.allows) /\ ~(0 \in Range(stop_line_locations))
        THEN Append(stop_line_locations, 0)
        ELSE stop_line_locations

\* "1" in request.response
HasOne(response) == \E i \in DOMAIN response : response[i] = "1"

\* mutant: zipper junctions not exempted
_requires_stop_line_zipper(n, lane) ==
    LET to_junction == EdgeOf(n, lane.parentEdge).to_junction
    IN  IF to_junction = None THEN Raise("AttributeError")
        ELSE IF JunctionOf(n, to_junction).type \in {"internal"} THEN Return(FALSE)
        ELSE IF JunctionOf(n, to_junction).type = "always_stop" THEN Return(TRUE)
        ELSE Return(\E k \in DOMAIN lane.requests : HasOne(lane.requests[k].response))

\* _Lane._requires_stop_line
_requires_stop_line(n, lane) ==
    LET to_junction == EdgeOf(n, lane.parentEdge).to_junction
    IN  IF to_junction = None THEN Raise("AttributeError")
        ELSE IF JunctionOf(n, to_junction).type \in {"internal", "zipper"} THEN Return(FALSE)
        ELSE IF JunctionOf(n, to_junction).type = "always_stop" THEN Return(TRUE)
        ELSE Return(\E k \in DOMAIN lane.requests : HasOne(lane.requests[k].response))

----------------------------------------------------------------------------
(* _Lane._guess_lane_markings *)

\* Operators that read a global of the Net module take the module's globals as M.

\* shapely terms
parallel_offset(alignment, distance, side) ==
    [kind |-> "parallel_offset", of |-> alignment, distance |-> distance, side |-> side]

substring(alignment, start_dist, end_dist) ==
    [kind |-> "substring", of |-> alignment, start_dist |-> start_dist, end_dist |-> end_dist]

\* LineString([a.coords[i], b.coords[j]]), i and j Python indices
LineString2(a, i, b, j) ==
    [kind |-> "LineString", first |-> [of |-> a, coord |-> i], second |-> [of |-> b, coord |-> j]]

_LaneMarking(alignment, linewidth, color, dashes, purpose, parent) ==
    [purpose |-> purpose, alignment |-> alignment, linewidth |-> linewidth,
     color |-> color, dashes |-> dashes, parent_lane |-> parent]

\* whether shapely.ops has substring (shapely >= 1.7.0, the version the code asks for)
SHAPELY_HAS_SUBSTRING == TRUE

\* mutant: the two branches of the passenger case swapped
LaneDashes_swapped(lane, adjacent_lane) ==
    IF allows(lane.allows, "bicycle") # allows(adjacent_lane.allows, "bicycle") THEN <<10000, 0>>
    ELSE IF allows(lane.allows, "passenger") # allows(adjacent_lane.allows, "passenger")
         THEN IF allows(lane.allows, "bicycle") THEN <<10000, 0>> ELSE <<100, 300>>
    ELSE <<300, 900>>

\* dash pattern of the left-edge marking of a non-centerline lane
LaneDashes(lane, adjacent_lane) ==
    IF allows(lane.allows, "bicycle") # allows(adjacent_lane.allows, "bicycle") THEN <<10000, 0>>
    ELSE IF allows(lane.allows, "passenger") # allows(adjacent_lane.allows, "passenger")
         THEN IF allows(lane.allows, "bicycle") THEN <<100, 300>> ELSE <<10000, 0>>
    ELSE <<300, 900>>

\* mutant: the outer marking left out for pedestrian-only lanes only
OuterMarking_pedestrian_only(lane, lw) ==
    IF lane.index = 0 /\ ~Allowance_eq(lane.allows, <<"pedestrian">>)
    THEN << _LaneMarking(parallel_offset(lane.alignment, lane.width \div 2, "right"),
                         lw, "w", <<10000, 0>>, "outer", lane.id) >>
    ELSE <<>>

\* outer lane marking, if necessary (same statement in both style branches)
OuterMarking(lane, lw) ==
    IF lane.index = 0 /\ ~(allows(lane.allows, "pedestrian") /\ ~allows(lane.allows, "all"))
    THEN << _LaneMarking(parallel_offset(lane.alignment, lane.width \div 2, "right"),
                         lw, "w", <<10000, 0>>, "outer", lane.id) >>
    ELSE <<>>

\* the US-style branch
USA_markings(M, n, lane) ==
    LET lw == 10 * M.STRIPE_WIDTH_SCALE_FACTOR
        adjacent_lane == get_lane(EdgeOf(n, lane.parentEdge), lane.index + 1)
    IN  IF inverse_lane_index(n, lane) = 0
        THEN Return(<< _LaneMarking(parallel_offset(lane.alignment, lane.width \div 2 - lw, "left"),
                                    lw, "y", <<10000, 0>>, "center", lane.id) >>
                    \o OuterMarking(lane, lw))
        ELSE IF adjacent_lane.raised # None THEN adjacent_lane
        ELSE Return(<< _LaneMarking(parallel_offset(lane.alignment, lane.width \div 2, "left"),
                                    lw, "w", LaneDashes(lane, LaneOf(n, adjacent_lane.value)),
                                    "lane", lane.id) >>
                    \o OuterMarking(lane, lw))

\* mutant: the European branch draws the US centerline
EUR_markings_as_USA(M, n, lane) == USA_markings(M, n, lane)

\* the European-style branch
EUR_markings(M, n, lane) ==
    LET lw == 10 * M.STRIPE_WIDTH_SCALE_FACTOR
        adjacent_lane == get_lane(EdgeOf(n, lane.parentEdge), lane.index + 1)
    IN  IF inverse_lane_index(n, lane) = 0
        THEN Return(<< _LaneMarking(parallel_offset(lane.alignment, lane.width \div 2, "left"),
                                    lw, "w", <<10000, 0>>, "center", lane.id) >>
                    \o OuterMarking(lane, lw))
        ELSE IF adjacent_lane.raised # None THEN adjacent_lane
        ELSE Return(<< _LaneMarking(parallel_offset(lane.alignment, lane.width \div 2, "left"),
                                    lw, "w", LaneDashes(lane, LaneOf(n, adjacent_lane.value)),
                                    "lane", lane.id) >>
                    \o OuterMarking(lane, lw))

\* one stop line marking
StopLineMarking(lane, stop_line_location) ==
    LET slw == 50
        pos == lane.alignment.length - stop_line_location - slw \div 2
        end_cl == substring(lane.alignment, pos - 100, pos)
        end_left == parallel_offset(end_cl, lane.width \div 2, "left")
        end_right == parallel_offset(end_cl, lane.width \div 2, "right")
    IN  _LaneMarking(LineString2(end_left, -1, end_right, 0), slw, "w", <<10000, 0>>, "stopline", lane.id)

\* mutant: one stop line, at the first location
StopLinesAt_first_location(lane, required, locations) ==
    IF required.raised # None THEN required
    ELSE IF ~required.value THEN Return(<<>>)
    ELSE IF ~SHAPELY_HAS_SUBSTRING THEN Return(<<>>)
    ELSE Return([i \in DOMAIN locations \cap {1} |-> StopLineMarking(lane, locations[i])])

\* the loop over the stop line locations, entered when the lane requires a stop line
StopLinesAt(lane, required, locations) ==
    IF required.raised # None THEN required
    ELSE IF ~required.value THEN Return(<<>>)
    ELSE IF ~SHAPELY_HAS_SUBSTRING THEN Return(<<>>)
    ELSE Return([i \in DOMAIN locations |-> StopLineMarking(lane, locations[i])])

\* stop line markings (all styles)
StopLineMarkings(M, n, lane) ==
    IF ~M.PLOT_STOP_LINES THEN Return(<<>>)
    ELSE IF Allowance_eq(lane.allows, <<"pedestrian">>) \/ Allowance_eq(lane.allows, <<"ship">>)
         THEN Return(<<>>)
    ELSE StopLinesAt(lane, _requires_stop_line(n, lane), get_stop_line_locations(n, lane))

\* mutant: the style test reads the bus stop style, whose "USA" value is the same string
StyleMarkings_bus_stop_style(M, n, lane) ==
    IF M.BUS_STOP_STYLE = USA_STYLE THEN USA_markings(M, n, lane)
    ELSE IF M.LANE_MARKINGS_STYLE = EUR_STYLE THEN EUR_markings(M, n, lane)
    ELSE IF M.LANE_MARKINGS_STYLE = USA_STYLE THEN USA_markings(M, n, lane)
    ELSE Return(<<>>)

StyleMarkings(M, n, lane) ==
    IF M.LANE_MARKINGS_STYLE = USA_STYLE THEN USA_markings(M, n, lane)
    ELSE IF M.LANE_MARKINGS_STYLE = EUR_STYLE THEN EUR_markings(M, n, lane)
    ELSE Return(<<>>)

\* the markings list after the statements that gave `more` have appended to it
Extended(markings, more) ==
    IF markings.raised # None THEN markings
    ELSE IF more.raised # None THEN more
    ELSE Return(markings.value \o more.value)

\* mutant: no early return for rail-only lanes
NoMarkingsLane_rail_drawn(n, lane) ==
    \/ EdgeOf(n, lane.parentEdge).function = "internal"
    \/ Allowance_eq(lane.allows, <<"ship">>)

\* the test of the early return
NoMarkingsLane(n, lane) ==
    \/ EdgeOf(n, lane.parentEdge).function = "internal"
    \/ Allowance_eq(lane.allows, <<"ship">>)
    \/ Allowance_eq(lane.allows, <<"rail">>)

\* mutant: the crossing branch does not return, the style and stop line markings follow
_guess_lane_markings_fallthrough(M, n, lane) ==
    IF NoMarkingsLane(n, lane) THEN Return(<<>>)
    ELSE Extended(Extended(Return(IF EdgeOf(n, lane.parentEdge).function = "crossing"
                                  THEN << _LaneMarking(lane.alignment, lane.width, "w", <<50, 50>>,
                                                       "crossing", lane.id) >>
                                  ELSE <<>>),
                           StyleMarkings(M, n, lane)),
                  StopLineMarkings(M, n, lane))

_guess_lane_markings(M, n, lane) ==
    IF NoMarkingsLane(n, lane) THEN Return(<<>>)
    ELSE IF EdgeOf(n, lane.parentEdge).function = "crossing"
    THEN Return(<< _LaneMarking(lane.alignment, lane.width, "w", <<50, 50>>, "crossing", lane.id) >>)
    ELSE Extended(StyleMarkings(M, n, lane), StopLineMarkings(M, n, lane))

----------------------------------------------------------------------------
(* Input networks: what Net.__init__ reads from the network file *)

MaxLanes == 3       \* most lanes on the approach edge

\* allow / disallow attributes of the curb lane (index 0) and of the lanes further in
CurbAllowInputs ==
    { << <<>>, <<>> >>,
      << <<"pedestrian">>, <<>> >>,
      << <<"pedestrian", "bicycle">>, <<>> >>,
      << <<"passenger">>, <<>> >>,
      << <<"ship">>, <<>> >>,
      << <<"rail">>, <<>> >> }

InnerAllowInputs ==
    { << <<>>, <<>> >>,
      << <<"passenger">>, <<>> >> }

LaneInputs ==
    UNION { { cfg \in [1..N -> CurbAllowInputs \cup InnerAllowInputs] :
                \A p \in 2..N : cfg[p] \in InnerAllowInputs }
            : N \in 1..MaxLanes }

FunctionInputs == {"normal", "internal", "crossing"}

\* the junction the approach edge leads to: its type ("absent": the file has no such junction)
\* and whether the response of its requests has a '1'
JunctionInputs ==
    { [type |-> "absent", yield |-> FALSE],
      [type |-> "priority", yield |-> FALSE],
      [type |-> "priority", yield |-> TRUE],
      [type |-> "zipper", yield |-> TRUE],
      [type |-> "internal", yield |-> TRUE],
      [type |-> "always_stop", yield |-> FALSE] }

\* stopOffset children (value, vClasses, exceptions) of the approach edge and of its lane 0
StopOffsetInputs ==
    { [edge |-> <<>>, lane |-> <<>>],
      [edge |-> << <<200, <<>>, <<>> >> >>, lane |-> <<>>],
      [edge |-> << <<200, <<>>, <<>> >> >>, lane |-> << <<100, <<"bicycle">>, <<>> >> >>],
      [edge |-> << <<0, <<"bicycle">>, <<>> >> >>, lane |-> <<>>] }

RECURSIVE WithStopOffsets(_, _, _)
WithStopOffsets(obj, rules, i) ==
    IF i = 0 THEN obj
    ELSE append_stop_offset(WithStopOffsets(obj, rules, i - 1), rules[i][1], rules[i][2], rules[i][3])

RECURSIVE WithLanes(_, _, _)
WithLanes(edge, lanes, i) ==
    IF i = 0 THEN edge ELSE append_lane(WithLanes(edge, lanes, i - 1), lanes[i])

RECURSIVE WithRequests(_, _, _)
WithRequests(junction, requests, i) ==
    IF i = 0 THEN junction ELSE append_request(WithRequests(junction, requests, i - 1), requests[i])

\* An approach edge "E" of N lanes into junction "J", one internal lane of edge ":J" per
\* approach lane, and an exit edge "O" of one lane into junction "K".
ParseNet(function, lanes, jn, so, exit_type) ==
    LET N == Len(lanes)
        approach == WithLanes(WithStopOffsets(_Edge("E", function, "K", "J"), so.edge, Len(so.edge)),
                        [p \in 1..N |->
                            LET lane == _Lane(<<"E", p - 1>>, p - 1, lanes[p][1], lanes[p][2],
                                              DEFAULT_LANE_WIDTH, 2000)
                            IN  IF p = 1 THEN WithStopOffsets(lane, so.lane, Len(so.lane)) ELSE lane],
                        N)
        internal == WithLanes(_Edge(":J", "internal", None, None),
                        [p \in 1..N |-> _Lane(<<":J", p - 1>>, p - 1, <<>>, <<>>, DEFAULT_LANE_WIDTH, 500)],
                        N)
        exit == WithLanes(_Edge("O", "normal", "J", "K"),
                        << _Lane(<<"O", 0>>, 0, <<>>, <<>>, DEFAULT_LANE_WIDTH, 2000) >>, 1)
        J == WithRequests(_Junction("J", jn.type, [p \in 1..N |-> <<"E", p - 1>>],
                                    [p \in 1..N |-> <<":J", p - 1>>], <<>>),
                          [p \in 1..N |->
                              _Request(p - 1, [b \in 1..N |-> IF jn.yield /\ b = 1 THEN "1" ELSE "0"])],
                          N)
        K == _Junction("K", exit_type, << <<"O", 0>> >>, <<>>, <<>>)
    IN  [edges |-> <<internal, approach, exit>>,
         junctions |-> IF jn.type = "absent" THEN <<K>> ELSE <<J, K>>,
         connections |-> [p \in 1..N |-> _Connection("E", p - 1, "O", 0, <<":J", p - 1>>, <<>>)]
                         \o [p \in 1..N |-> _Connection(":J", p - 1, "O", 0, NoLane, <<>>)]]

\* Stop offsets are read on the networks whose junction has the approach lanes yield.
\* Edges of function "internal" or "crossing" are read with fewer junction and stop offset
\* variants: their lanes return from _guess_lane_markings before either is looked at.
InputNets ==
    { ParseNet("normal", lanes, jn.jn, jn.so, "dead_end") :
        lanes \in LaneInputs,
        jn \in { c \in [jn : JunctionInputs, so : StopOffsetInputs] :
                    (c.jn.type = "priority" /\ c.jn.yield) \/ (c.so.edge = <<>> /\ c.so.lane = <<>>) } }
    \cup
    { ParseNet(function, lanes, jn, so, "dead_end") :
        function \in FunctionInputs \ {"normal"}, lanes \in LaneInputs,
        jn \in {j \in JunctionInputs : j.type \in {"absent", "always_stop"}},
        so \in {o \in StopOffsetInputs : o.lane = <<>> /\ Len(o.edge) <= 1 /\ \A i \in DOMAIN o.edge : o.edge[i][1] # 0} }

\* One-lane approach edges whose lane takes every mask over the classes lane_type asks about
\* (allow="none" for the empty mask), and the all-true mask.
KeyClasses == <<"pedestrian", "bicycle", "ship", "authority", "passenger", "bus">>

SubSeqOf(classes, S) == SelectSeq(classes, LAMBDA c : c \in S)

MaskInputs ==
    { << IF S = {} THEN <<"none">> ELSE SubSeqOf(KeyClasses, S), <<>> >> : S \in SUBSET Range(KeyClasses) }
    \cup { << <<>>, <<>> >>, << <<"all">>, <<"bicycle">> >>, << <<>>, <<"all">> >> }

MaskNets ==
    { ParseNet(function, <<mask>>, [type |-> "priority", yield |-> TRUE], [edge |-> <<>>, lane |-> <<>>],
               "dead_end") :
        function \in FunctionInputs, mask \in MaskInputs }

\* Networks whose exit edge leads to a junction of another type that has no requests
ExitTypeInputs == {"always_stop", "zipper", "priority"}

ExitNets ==
    { ParseNet("normal", << << <<>>, <<>> >> >>, jn, [edge |-> <<>>, lane |-> <<>>], exit_type) :
        jn \in JunctionInputs, exit_type \in ExitTypeInputs }

----------------------------------------------------------------------------
(* State *)

\* every lane of the network, as a lane reference
Lanes(n) == UNION { { <<n.edges[e].id, n.edges[e].lanes[p].index>> : p \in DOMAIN n.edges[e].lanes }
                    : e \in DOMAIN n.edges }

Called(op, lane, result) == [op |-> op, lane |-> lane, result |-> result]

NoObs ==
    [lane |-> NoLane, style |-> None, scale |-> 0, stop_lines |-> FALSE, result |-> Return(None),
     again |-> FALSE]

\* module globals as set at import, and a Net built from an input file
Globals == <<LANE_MARKINGS_STYLE, PLOT_STOP_LINES, STRIPE_WIDTH_SCALE_FACTOR, BUS_STOP_STYLE>>

\* the Net module's globals (and Additionals.BUS_STOP_STYLE) as a call reads them
Module ==
    [LANE_MARKINGS_STYLE |-> LANE_MARKINGS_STYLE, PLOT_STOP_LINES |-> PLOT_STOP_LINES,
     STRIPE_WIDTH_SCALE_FACTOR |-> STRIPE_WIDTH_SCALE_FACTOR, BUS_STOP_STYLE |-> BUS_STOP_STYLE]

\* no Net object built: no edge, junction or connection is held
NoNet == [edges |-> <<>>, junctions |-> <<>>, connections |-> <<>>]

InitGlobals ==
    /\ LANE_MARKINGS_STYLE = EUR_STYLE
    /\ PLOT_STOP_LINES = TRUE
    /\ STRIPE_WIDTH_SCALE_FACTOR = 1
    /\ BUS_STOP_STYLE = "SUMO"

Init ==
    /\ \E input \in InputNets :
          /\ _link_objects(input).raised = None
          /\ net = _link_objects(input).value
    /\ InitGlobals
    /\ ret = Called("Net", NoLane, Return(None))
    /\ obs = NoObs

----------------------------------------------------------------------------
(* Operations *)

\* mutant: the stop line flag is stored before the style is tested
set_style_flag_first(style, plot_stop_lines) ==
    IF style # <<>> /\ ~(style[1] \in {USA_STYLE, EUR_STYLE})
    THEN /\ ret' = Called("set_style", NoLane, Raise("IndexError"))
         /\ PLOT_STOP_LINES' = IF plot_stop_lines # <<>> THEN plot_stop_lines[1] ELSE PLOT_STOP_LINES
         /\ UNCHANGED LANE_MARKINGS_STYLE
    ELSE /\ LANE_MARKINGS_STYLE' = IF style # <<>> THEN style[1] ELSE LANE_MARKINGS_STYLE
         /\ PLOT_STOP_LINES' = IF plot_stop_lines # <<>> THEN plot_stop_lines[1] ELSE PLOT_STOP_LINES
         /\ ret' = Called("set_style", NoLane, Return(None))

\* set_style(style, plot_stop_lines); an argument left out (None) is <<>>, a given one <<v>>
set_style(style, plot_stop_lines) ==
    IF style # <<>> /\ ~(style[1] \in {USA_STYLE, EUR_STYLE})
    THEN /\ ret' = Called("set_style", NoLane, Raise("IndexError"))
         /\ UNCHANGED <<LANE_MARKINGS_STYLE, PLOT_STOP_LINES>>
    ELSE /\ LANE_MARKINGS_STYLE' = IF style # <<>> THEN style[1] ELSE LANE_MARKINGS_STYLE
         /\ PLOT_STOP_LINES' = IF plot_stop_lines # <<>> THEN plot_stop_lines[1] ELSE PLOT_STOP_LINES
         /\ ret' = Called("set_style", NoLane, Return(None))

SetStyle(style, plot_stop_lines) ==
    /\ set_style(style, plot_stop_lines)
    /\ UNCHANGED <<net, STRIPE_WIDTH_SCALE_FACTOR, BUS_STOP_STYLE, obs>>

set_stripe_width_scale(factor) ==
    /\ STRIPE_WIDTH_SCALE_FACTOR' = factor
    /\ ret' = Called("set_stripe_width_scale", NoLane, Return(None))
    /\ UNCHANGED <<net, LANE_MARKINGS_STYLE, PLOT_STOP_LINES, BUS_STOP_STYLE, obs>>

\* mutant: the stop lines are drawn once, the call switches them off
GuessLaneMarkings_one_shot(lane) ==
    /\ ret' = Called("_guess_lane_markings", lane, _guess_lane_markings(Module, net, LaneOf(net, lane)))
    /\ PLOT_STOP_LINES' = FALSE
    /\ UNCHANGED <<net, LANE_MARKINGS_STYLE, STRIPE_WIDTH_SCALE_FACTOR, BUS_STOP_STYLE>>

\* lane._guess_lane_markings()
GuessLaneMarkings(lane) ==
    /\ ret' = Called("_guess_lane_markings", lane, _guess_lane_markings(Module, net, LaneOf(net, lane)))
    /\ UNCHANGED <<net, Globals>>

\* lane.lane_type()
LaneType(lane) ==
    /\ ret' = Called("lane_type", lane, Return(lane_type(net, LaneOf(net, lane))))
    /\ UNCHANGED <<net, Globals, obs>>

\* lane._requires_stop_line()
RequiresStopLine(lane) ==
    /\ ret' = Called("_requires_stop_line", lane, _requires_stop_line(net, LaneOf(net, lane)))
    /\ UNCHANGED <<net, Globals, obs>>

\* lane.get_stop_line_locations()
GetStopLineLocations(lane) ==
    /\ ret' = Called("get_stop_line_locations", lane, Return(get_stop_line_locations(net, LaneOf(net, lane))))
    /\ UNCHANGED <<net, Globals, obs>>

\* what drawing or exporting every lane of the non-internal edges comes to: the first
\* exception of a _guess_lane_markings call, if any
DrawAllMarkings(M, n, done) ==
    IF \E lane \in Lanes(n) :
          /\ EdgeOf(n, lane[1]).function # "internal"
          /\ _guess_lane_markings(M, n, LaneOf(n, lane)).raised # None
    THEN Raise("AttributeError")
    ELSE Return(done)

\* Net.plot(style, stripe_width_scale, plot_stop_lines)
plot(style, stripe_width_scale, plot_stop_lines) ==
    IF style # <<>> /\ ~(style[1] \in {USA_STYLE, EUR_STYLE})
    THEN /\ ret' = Called("plot", NoLane, Raise("IndexError"))
         /\ UNCHANGED <<net, Globals, obs>>
    ELSE LET M == [Module EXCEPT
                      !.LANE_MARKINGS_STYLE = IF style # <<>> THEN style[1] ELSE @,
                      !.PLOT_STOP_LINES = IF plot_stop_lines # <<>> THEN plot_stop_lines[1] ELSE @,
                      !.STRIPE_WIDTH_SCALE_FACTOR = stripe_width_scale]
         IN  /\ LANE_MARKINGS_STYLE' = M.LANE_MARKINGS_STYLE
             /\ PLOT_STOP_LINES' = M.PLOT_STOP_LINES
             /\ STRIPE_WIDTH_SCALE_FACTOR' = M.STRIPE_WIDTH_SCALE_FACTOR
             /\ UNCHANGED <<net, BUS_STOP_STYLE, obs>>
             /\ ret' = Called("plot", NoLane, DrawAllMarkings(M, net, "ArtistCollection"))

\* mutant: a call without a style falls back to the 'EUR' style
generate_obj_text_default_style(style, stripe_width_scale) ==
    IF style # <<>> /\ ~(style[1] \in {USA_STYLE, EUR_STYLE})
    THEN /\ ret' = Called("generate_obj_text", NoLane, Raise("IndexError"))
         /\ UNCHANGED <<net, Globals, obs>>
    ELSE LET M == [Module EXCEPT
                      !.LANE_MARKINGS_STYLE = IF style # <<>> THEN style[1] ELSE EUR_STYLE,
                      !.STRIPE_WIDTH_SCALE_FACTOR = stripe_width_scale]
         IN  /\ LANE_MARKINGS_STYLE' = M.LANE_MARKINGS_STYLE
             /\ STRIPE_WIDTH_SCALE_FACTOR' = M.STRIPE_WIDTH_SCALE_FACTOR
             /\ UNCHANGED <<net, PLOT_STOP_LINES, BUS_STOP_STYLE, obs>>
             /\ ret' = Called("generate_obj_text", NoLane, DrawAllMarkings(M, net, "obj_text"))

\* Net.generate_obj_text(style, stripe_width_scale)
generate_obj_text(style, stripe_width_scale) ==
    IF style # <<>> /\ ~(style[1] \in {USA_STYLE, EUR_STYLE})
    THEN /\ ret' = Called("generate_obj_text", NoLane, Raise("IndexError"))
         /\ UNCHANGED <<net, Globals, obs>>
    ELSE LET M == [Module EXCEPT
                      !.LANE_MARKINGS_STYLE = IF style # <<>> THEN style[1] ELSE @,
                      !.STRIPE_WIDTH_SCALE_FACTOR = stripe_width_scale]
         IN  /\ LANE_MARKINGS_STYLE' = M.LANE_MARKINGS_STYLE
             /\ STRIPE_WIDTH_SCALE_FACTOR' = M.STRIPE_WIDTH_SCALE_FACTOR
             /\ UNCHANGED <<net, PLOT_STOP_LINES, BUS_STOP_STYLE, obs>>
             /\ ret' = Called("generate_obj_text", NoLane, DrawAllMarkings(M, net, "obj_text"))

BUS_STOP_STYLES == {"SUMO", "GER", "UK", "USA"}

\* Additionals.set_bus_stop_style(style): the test is made on the current style
set_bus_stop_style(style) ==
    IF ~(BUS_STOP_STYLE \in BUS_STOP_STYLES)
    THEN /\ ret' = Called("set_bus_stop_style", NoLane, Raise("ValueError"))
         /\ UNCHANGED <<net, Globals, obs>>
    ELSE /\ BUS_STOP_STYLE' = style
         /\ ret' = Called("set_bus_stop_style", NoLane, Return(None))
         /\ UNCHANGED <<net, LANE_MARKINGS_STYLE, PLOT_STOP_LINES, STRIPE_WIDTH_SCALE_FACTOR, obs>>

\* a _guess_lane_markings call, logged with the settings it ran under
ObserveLaneMarkings(lane) ==
    /\ GuessLaneMarkings(lane)
    /\ obs' = [lane |-> lane, style |-> LANE_MARKINGS_STYLE, scale |-> STRIPE_WIDTH_SCALE_FACTOR,
               stop_lines |-> PLOT_STOP_LINES, result |-> ret'.result]

\* a _guess_lane_markings call, logged with whether it directly follows a _guess_lane_markings
\* call on the same lane
RepeatLaneMarkings(lane) ==
    /\ GuessLaneMarkings(lane)
    /\ obs' = [lane |-> lane, result |-> ret'.result,
               again |-> (ret.op = "_guess_lane_markings" /\ ret.lane = lane)]

\* net._link_objects() run once more on the network that Net.__init__ has linked (every
\* lookup of the first pass is repeated, so the pass raises nothing there)
Relink ==
    /\ ret.op = "Net"
    /\ _link_objects(net).raised = None
    /\ net' = _link_objects(net).value
    /\ ret' = Called("_link_objects", NoLane, Return(None))
    /\ UNCHANGED <<Globals, obs>>

StyleInputs == {<<>>, <<USA_STYLE>>, <<EUR_STYLE>>, <<"GER">>}
FlagInputs == {<<>>, <<TRUE>>, <<FALSE>>}
ScaleInputs == {1, 2}

Next ==
    \/ \E lane \in Lanes(net) : GuessLaneMarkings(lane) /\ UNCHANGED obs
    \/ \E style \in StyleInputs, flag \in FlagInputs : SetStyle(style, flag)
    \/ \E factor \in ScaleInputs : set_stripe_width_scale(factor)

Spec == Init /\ [][Next]_vars

\* The lane queries that read no module global, on the networks above and on the mask networks
InitLane ==
    /\ \E input \in InputNets \cup MaskNets \cup ExitNets :
          /\ _link_objects(input).raised = None
          /\ net = _link_objects(input).value
    /\ InitGlobals
    /\ ret = Called("Net", NoLane, Return(None))
    /\ obs = NoObs

NextLane ==
    \/ \E lane \in Lanes(net) : LaneType(lane)
    \/ \E lane \in Lanes(net) : RequiresStopLine(lane)
    \/ \E lane \in Lanes(net) : GetStopLineLocations(lane)

SpecLane == InitLane /\ [][NextLane]_vars

\* Repeated calls: _guess_lane_markings logged on the networks of one or two approach lanes
\* whose lanes have to stop, with every stop offset input
RepeatNets ==
    { ParseNet("normal", lanes, jn.jn, jn.so, "dead_end") :
        lanes \in { cfg \in LaneInputs : Len(cfg) <= 2 },
        jn \in { c \in [jn : JunctionInputs, so : StopOffsetInputs] :
                    \/ c.jn.type = "priority" /\ c.jn.yield
                    \/ c.jn.type \in {"absent", "always_stop"} /\ c.so.lane # <<>> } }

InitRepeat ==
    /\ \E input \in RepeatNets :
          /\ _link_objects(input).raised = None
          /\ net = _link_objects(input).value
    /\ InitGlobals
    /\ ret = Called("Net", NoLane, Return(None))
    /\ obs = NoObs

NextRepeat ==
    \/ \E lane \in Lanes(net) : RepeatLaneMarkings(lane)
    \/ \E style \in StyleInputs, flag \in FlagInputs : SetStyle(style, flag)
    \/ \E factor \in ScaleInputs : set_stripe_width_scale(factor)

SpecRepeat == InitRepeat /\ [][NextRepeat]_vars

\* _Utils.Allowance on its own: obs.mask is self.mask of the Allowance under test, built
\* from an allow string and a disallow string
AllowanceInputs ==
    MaskInputs \cup { << <<"all">>, SubSeqOf(KeyClasses, S) >> : S \in SUBSET Range(KeyClasses) }

VClassInputs == {"all", "none", "pedestrian", "passenger", "rail", "hovercraft"}

InitAllowance ==
    /\ net = NoNet
    /\ InitGlobals
    /\ \E input \in AllowanceInputs : obs = [mask |-> Allowance(input[1], input[2])]
    /\ ret = [op |-> "Allowance", args |-> <<>>, result |-> Return(None)]

\* Allowance(A.get_allow_string(), A.get_disallow_string())
AllowanceFromStrings ==
    LET allow_string == get_allow_string(obs.mask)
        disallow_string == get_disallow_string(obs.mask)
    IN  /\ ret' = [op |-> "Allowance", args |-> <<allow_string, disallow_string>>,
                   result |-> Return(Allowance(allow_string, disallow_string))]
        /\ UNCHANGED <<net, Globals, obs>>

Allows(vClass) ==
    /\ ret' = [op |-> "allows", args |-> <<vClass>>, result |-> Allowance_allows(obs.mask, vClass)]
    /\ UNCHANGED <<net, Globals, obs>>

\* ~A
Invert ==
    /\ ret' = [op |-> "__invert__", args |-> <<>>, result |-> Return(Allowance_invert(obs.mask))]
    /\ UNCHANGED <<net, Globals, obs>>

\* A + other, other being the Allowance the last call returned
Add ==
    /\ ret.op \in {"__invert__", "Allowance"}
    /\ ret.args # <<>> \/ ret.op = "__invert__"
    /\ ret' = [op |-> "__add__", args |-> <<ret.op>>,
               result |-> Return(Allowance_add(obs.mask, ret.result.value))]
    /\ UNCHANGED <<net, Globals, obs>>

NextAllowance ==
    \/ AllowanceFromStrings
    \/ \E vClass \in VClassInputs : Allows(vClass)
    \/ Invert
    \/ Add

SpecAllowance == InitAllowance /\ [][NextAllowance]_vars

\* allow and disallow strings as a caller writes them, with a name outside vClass_list
AllowStringInputs ==
    {<<>>, <<"all">>, <<"none">>}
        \cup {<<a>> : a \in {"passenger", "bus", "hovercraft"}}
        \cup {<<a, b>> : a, b \in {"passenger", "bus", "hovercraft"}}

InitVClass ==
    /\ net = NoNet
    /\ InitGlobals
    /\ obs = [mask |-> Allowance(<<"all">>, <<>>)]
    /\ ret = [op |-> "import", args |-> <<>>, result |-> Return(None)]

\* A = Allowance(allow_string, disallow_string)
Construct(allow_string, disallow_string) ==
    /\ obs' = [mask |-> Allowance(allow_string, disallow_string)]
    /\ ret' = [op |-> "Allowance", args |-> <<allow_string, disallow_string>>,
               result |-> Return(Allowance(allow_string, disallow_string))]
    /\ UNCHANGED <<net, Globals>>

NextVClass ==
    \/ \E allow_string, disallow_string \in AllowStringInputs : Construct(allow_string, disallow_string)
    \/ \E vClass \in VClassInputs : Allows(vClass)

SpecVClass == InitVClass /\ [][NextVClass]_vars

\* Object3D.from_shape on its own.  A ring of n coordinates is closed (the last is the
\* first again); the k-th outline of a shape lies on the line y = k.
MaxRing == 5
MaxObjects == 2

Ring(k, n) == [i \in 1..n |-> IF i = n THEN <<10 * k + 1, k>> ELSE <<10 * k + i, k>>]
Line(k, n) == [i \in 1..n |-> <<10 * k + i, k>>]

ShapeInputs ==
    { Shape("Polygon", <<Ring(1, n)>>) : n \in 4..MaxRing }
    \cup { Shape("MultiPolygon", <<Ring(1, n), Ring(2, m)>>) : n \in 4..MaxRing, m \in 4..MaxRing }
    \cup { Shape("LineString", <<Line(1, n)>>) : n \in 2..3 }
    \cup { Shape("MultiLineString", <<Line(1, 2), Line(2, 3)>>), Shape("Point", <<>>) }

HeightInputs == {0, 15, -15}
ZInputs == {0, 5}

InitObject3D ==
    /\ net = NoNet
    /\ InitGlobals
    /\ obs = [objects |-> <<>>]
    /\ ret = [op |-> "import", args |-> <<>>, result |-> Return(None)]

FromShape(shape, z, extrude_height, include_bottom_face, include_top_face) ==
    /\ ret' = [op |-> "from_shape",
               args |-> [shape |-> shape, z |-> z, extrude_height |-> extrude_height,
                         include_bottom_face |-> include_bottom_face,
                         include_top_face |-> include_top_face],
               result |-> from_shape(shape, "shape", "material", z, extrude_height,
                                     include_bottom_face, include_top_face)]
    /\ UNCHANGED <<net, Globals, obs>>

NextExtrude ==
    \E shape \in ShapeInputs, z \in ZInputs, extrude_height \in HeightInputs,
       include_bottom_face \in BOOLEAN, include_top_face \in BOOLEAN :
        FromShape(shape, z, extrude_height, include_bottom_face, include_top_face)

SpecExtrude == InitObject3D /\ [][NextExtrude]_vars

\* The serializer on lists of objects that from_shape has built
ObjectInputs ==
    { from_shape(shape, "shape", "material", 0, extrude_height, include_bottom_face,
                 include_top_face).value :
        shape \in { Shape("Polygon", <<Ring(1, MaxRing)>>),
                    Shape("MultiPolygon", <<Ring(1, 4), Ring(2, MaxRing)>>),
                    Shape("LineString", <<Line(1, 2)>>) },
        extrude_height \in {0, 15},
        include_bottom_face \in BOOLEAN, include_top_face \in BOOLEAN }

ObjectListInputs == UNION { [1..n -> ObjectInputs] : n \in 0..MaxObjects }

MaterialMappingInputs == { <<>>, [m \in {"material"} |-> "asphalt"] }

InitObjText ==
    /\ net = NoNet
    /\ InitGlobals
    /\ obs \in { [objects |-> objects] : objects \in ObjectListInputs }
    /\ ret = [op |-> "import", args |-> <<>>, result |-> Return(None)]

GenerateObjText(material_mapping) ==
    /\ ret' = [op |-> "generate_obj_text_from_objects", args |-> <<material_mapping>>,
               result |-> Return(generate_obj_text_from_objects(obs.objects, material_mapping))]
    /\ UNCHANGED <<net, Globals, obs>>

NextObjText == \E material_mapping \in MaterialMappingInputs : GenerateObjText(material_mapping)

SpecObjText == InitObjText /\ [][NextObjText]_vars

(***************************************************************************)
(* _Utils.triangulate_polygon_constrained: the graph handed to triangle    *)
(***************************************************************************)

\* A polygon with holes is its exterior ring and its interior rings, each ring closed
\* (the last coordinate pair repeats the first); a multi-geometry is the list of its parts.
PolygonWithHoles(exterior, interiors) ==
    [type |-> "Polygon", exterior |-> exterior, interiors |-> interiors, parts |-> <<>>]

Collection(type, parts) == [type |-> type, exterior |-> <<>>, interiors |-> <<>>, parts |-> parts]

\* ring.coords[:-1]
AllButLast(coords) == SubSeq(coords, 1, Len(coords) - 1)

\* mutant: every ring is closed at vertex 0
RingSegments_close_at_zero(offset, pt_cnt) ==
    [k \in 1..(pt_cnt - 1) |-> <<offset + k - 1, offset + k>>] \o << <<offset + pt_cnt - 1, 0>> >>

\* [[i, i+1] for i in range(offset, offset+pt_cnt-1)] + [[offset+pt_cnt-1, offset]]
RingSegments(offset, pt_cnt) ==
    [k \in 1..(pt_cnt - 1) |-> <<offset + k - 1, offset + k>>] \o << <<offset + pt_cnt - 1, offset>> >>

\* the loop over shape.interiors; the hole marker is the representative point of the
\* polygon of the k-th hole, a point inside that hole
RECURSIVE AddHoles(_, _, _, _)
AddHoles(tri, interiors, k, offset) ==
    IF k > Len(interiors) THEN tri
    ELSE LET hole_pt_cnt == Len(interiors[k]) - 1
         IN  AddHoles([vertices |-> tri.vertices \o AllButLast(interiors[k]),
                       segments |-> tri.segments \o RingSegments(offset, hole_pt_cnt),
                       holes |-> Append(tri.holes, [representative_point_of |-> interiors[k]])],
                      interiors, k + 1, offset + hole_pt_cnt)

\* the dictionary tri of the Polygon case as triangle.triangulate receives it: a function of
\* the keys, "holes" popped when there is no hole
PolygonGraph(shape) ==
    LET ext_pt_cnt == Len(shape.exterior) - 1
        tri == AddHoles([vertices |-> AllButLast(shape.exterior),
                         segments |-> RingSegments(0, ext_pt_cnt),
                         holes |-> <<>>],
                        shape.interiors, 1, ext_pt_cnt)
    IN  IF Len(tri.holes) = 0 THEN [vertices |-> tri.vertices, segments |-> tri.segments]
        ELSE tri

\* triangulate_polygon_constrained up to its calls of triangle.triangulate: the graphs
\* handed over, one per polygon, or the exception raised before any call
triangulate_polygon_constrained(shape, triangle_imported, polylabel_imported) ==
    IF ~triangle_imported \/ ~polylabel_imported THEN Raise("EnvironmentError")
    ELSE IF shape.type = "Polygon" THEN Return(<<PolygonGraph(shape)>>)
    ELSE IF shape.type \in {"MultiPolygon", "GeometryCollection"}
    THEN Return([k \in DOMAIN SelectSeq(shape.parts, LAMBDA part : part.type = "Polygon") |->
                    PolygonGraph(SelectSeq(shape.parts, LAMBDA part : part.type = "Polygon")[k])])
    ELSE Raise("NotImplementedError")

\* polygons with an exterior ring of 3..MaxRing-1 vertices and up to two holes
HoleInputs ==
    {<<>>} \cup {<<Ring(2, n)>> : n \in 4..MaxRing}
           \cup {<<Ring(2, n), Ring(3, m)>> : n \in 4..MaxRing, m \in 4..MaxRing}

PolygonInputs == { PolygonWithHoles(Ring(1, n), holes) : n \in 4..MaxRing, holes \in HoleInputs }

TriangulateInputs ==
    PolygonInputs
    \cup { Collection("MultiPolygon", <<p, q>>) :
              p \in PolygonInputs,
              q \in {PolygonWithHoles(Ring(4, n), <<Ring(5, 4)>>) : n \in 4..MaxRing} }
    \cup { Collection("GeometryCollection", <<Collection("LineString", <<>>), p>>) : p \in PolygonInputs }
    \cup { Collection("LineString", <<>>) }

InitTriangulate ==
    /\ net = NoNet
    /\ InitGlobals
    /\ obs = NoObs
    /\ ret = [op |-> "import", args |-> <<>>, result |-> Return(None)]

Triangulate(shape, triangle_imported, polylabel_imported) ==
    /\ ret.op = "import"
    /\ ret' = [op |-> "triangulate_polygon_constrained", args |-> <<shape>>,
               result |-> triangulate_polygon_constrained(shape, triangle_imported, polylabel_imported)]
    /\ UNCHANGED <<net, Globals, obs>>

NextTriangulate ==
    \E shape \in TriangulateInputs, triangle_imported \in BOOLEAN, polylabel_imported \in BOOLEAN :
        Triangulate(shape, triangle_imported, polylabel_imported)

SpecTriangulate == InitTriangulate /\ [][NextTriangulate]_vars

----------------------------------------------------------------------------
(* _Connection: shape and 3D object *)

\* The coordinates of parallel_offset(...).coords.  What shapely computes is an input: the
\* number of points of the offset line (0: an empty line), or the exception that the call
\* or reading .coords of a multi-part result raises.  A point is named by the offset line
\* and its position counted in the direction of the alignment; shapely returns a right
\* hand offset in the reverse direction.
Coord(line, at) ==
    << [axis |-> "x", of |-> line, at |-> at], [axis |-> "y", of |-> line, at |-> at] >>

OffsetCoords(line, count) ==
    [i \in 1..count |-> Coord(line, IF line.side = "right" THEN count + 1 - i ELSE i)]

\* what one offset call came to: the exception raised (None: none) and the number of points
Computed(count) == [raised |-> None, count |-> count]
Failed(e) == [raised |-> e, count |-> 0]

OffsetFailures == {Failed("ValueError"), Failed("NotImplementedError")}

\* list[1:-1]
Interior(s) == IF Len(s) <= 2 THEN <<>> ELSE SubSeq(s, 2, Len(s) - 1)

\* mutant: the right via offset is used in the order shapely returns it
_generate_shape_right_unreversed(n, connection, offsets) ==
    IF connection.from_lane = NoLane \/ connection.to_lane = NoLane \/ connection.via_lane = NoLane
    THEN Raise("ReferenceError")
    ELSE LET from_lane == LaneOf(n, connection.from_lane)
             to_lane == LaneOf(n, connection.to_lane)
             via_lane == LaneOf(n, connection.via_lane)
             from_lane_left_edge ==
                 OffsetCoords(parallel_offset(from_lane.alignment, from_lane.width \div 2, "left"),
                              offsets.from_left.count)
             from_lane_right_edge ==
                 OffsetCoords(parallel_offset(from_lane.alignment, from_lane.width \div 2, "right"),
                              offsets.from_right.count)
             to_lane_left_edge ==
                 OffsetCoords(parallel_offset(to_lane.alignment, to_lane.width \div 2, "left"),
                              offsets.to_left.count)
             to_lane_right_edge ==
                 OffsetCoords(parallel_offset(to_lane.alignment, to_lane.width \div 2, "right"),
                              offsets.to_right.count)
             left_edge ==
                 IF offsets.via_left \in OffsetFailures THEN <<>>
                 ELSE OffsetCoords(parallel_offset(via_lane.alignment, from_lane.width \div 2, "left"),
                                   offsets.via_left.count)
             right_edge ==
                        (IF offsets.via_right \in OffsetFailures THEN <<>>
                         ELSE OffsetCoords(parallel_offset(via_lane.alignment,
                                                           from_lane.width \div 2, "right"),
                                           offsets.via_right.count))
             left_coords == <<from_lane_left_edge[Len(from_lane_left_edge)]>> \o Interior(left_edge)
                                \o <<to_lane_left_edge[1]>>
             right_coords == <<from_lane_right_edge[1]>> \o Interior(right_edge)
                                 \o <<to_lane_right_edge[Len(to_lane_right_edge)]>>
             boundary_coords == right_coords \o Reverse(left_coords) \o <<right_coords[1]>>
         IN  Return(Polygon(boundary_coords))

\* _Connection._generate_shape; offsets holds what shapely computes for the six offsets
_generate_shape(n, connection, offsets) ==
    IF connection.from_lane = NoLane \/ connection.to_lane = NoLane \/ connection.via_lane = NoLane
    THEN Raise("ReferenceError")
    ELSE LET from_lane == LaneOf(n, connection.from_lane)
             to_lane == LaneOf(n, connection.to_lane)
             via_lane == LaneOf(n, connection.via_lane)
             from_lane_left_edge ==
                 OffsetCoords(parallel_offset(from_lane.alignment, from_lane.width \div 2, "left"),
                              offsets.from_left.count)
             from_lane_right_edge ==
                 OffsetCoords(parallel_offset(from_lane.alignment, from_lane.width \div 2, "right"),
                              offsets.from_right.count)
             to_lane_left_edge ==
                 OffsetCoords(parallel_offset(to_lane.alignment, to_lane.width \div 2, "left"),
                              offsets.to_left.count)
             to_lane_right_edge ==
                 OffsetCoords(parallel_offset(to_lane.alignment, to_lane.width \div 2, "right"),
                              offsets.to_right.count)
             left_edge ==
                 IF offsets.via_left \in OffsetFailures THEN <<>>
                 ELSE OffsetCoords(parallel_offset(via_lane.alignment, from_lane.width \div 2, "left"),
                                   offsets.via_left.count)
             right_edge ==
                 Reverse(IF offsets.via_right \in OffsetFailures THEN <<>>
                         ELSE OffsetCoords(parallel_offset(via_lane.alignment,
                                                           from_lane.width \div 2, "right"),
                                           offsets.via_right.count))
             left_coords == <<from_lane_left_edge[Len(from_lane_left_edge)]>> \o Interior(left_edge)
                                \o <<to_lane_left_edge[1]>>
             right_coords == <<from_lane_right_edge[1]>> \o Interior(right_edge)
                                 \o <<to_lane_right_edge[Len(to_lane_right_edge)]>>
             boundary_coords == right_coords \o Reverse(left_coords) \o <<right_coords[1]>>
         IN  Return(Polygon(boundary_coords))

\* shapely.geometry.polygon.orient: reads polygon.exterior, which only a Polygon has; the
\* ring is kept when its signed area is not negative and reversed otherwise
orient(shape, signed_area_negative) ==
    IF shape.type # "Polygon" THEN Raise("AttributeError")
    ELSE Return(IF signed_area_negative THEN Shape("Polygon", <<Reverse(shape.outlines[1])>>)
                ELSE shape)

\* _Connection.get_as_3d_object
_Connection_get_as_3d_object(n, connection, offsets, signed_area_negative, z, include_bottom_face) ==
    LET shape == IF connection.shape # NoShape THEN Return(connection.shape)
                 ELSE _generate_shape(n, connection, offsets)
    IN  IF shape.raised # None THEN shape
        ELSE IF is_empty(shape.value) THEN Return(None)
        ELSE IF connection.from_lane = NoLane THEN Raise("AttributeError")
        ELSE IF /\ lane_type(n, LaneOf(n, connection.from_lane)) = "pedestrian"
                /\ connection.to_lane = NoLane
             THEN Raise("AttributeError")
        ELSE LET pedestrian == /\ lane_type(n, LaneOf(n, connection.from_lane)) = "pedestrian"
                               /\ lane_type(n, LaneOf(n, connection.to_lane)) = "pedestrian"
                 h == IF pedestrian THEN 15 ELSE 0
                 material == IF pedestrian THEN "pedestrian_connection" ELSE "connection"
                 oriented == orient(shape.value, signed_area_negative)
             IN  IF oriented.raised # None THEN oriented
                 ELSE IF connection.via_id = NoLane THEN Raise("TypeError")
                 ELSE from_shape(oriented.value, <<"cxn_via_", connection.via_id>>, material,
                                 z, h, include_bottom_face, TRUE)

\* Networks with one connection E_0 -> O_0: each of the edges "E", "O" and ":J" is in the
\* file or not, the connection names a via lane or not and has a shape attribute or not
ConnectionNet(has_from, has_to, has_via, via, shape, from_allow, to_allow) ==
    LET E == WithLanes(_Edge("E", "normal", "K", "J"),
                       << _Lane(<<"E", 0>>, 0, from_allow, <<>>, DEFAULT_LANE_WIDTH, 2000) >>, 1)
        O == WithLanes(_Edge("O", "normal", "J", "K"),
                       << _Lane(<<"O", 0>>, 0, to_allow, <<>>, DEFAULT_LANE_WIDTH, 2000) >>, 1)
        J == WithLanes(_Edge(":J", "internal", None, None),
                       << _Lane(<<":J", 0>>, 0, <<>>, <<>>, DEFAULT_LANE_WIDTH, 500) >>, 1)
    IN  [edges |-> (IF has_from THEN <<E>> ELSE <<>>) \o (IF has_to THEN <<O>> ELSE <<>>)
                       \o (IF has_via THEN <<J>> ELSE <<>>),
         junctions |-> <<>>,
         connections |-> << _Connection("E", 0, "O", 0, via, shape) >>]

ConnectionNets ==
    { ConnectionNet(has_from, has_to, has_via, via, shape, from_allow, to_allow) :
        has_from \in BOOLEAN, has_to \in BOOLEAN, has_via \in BOOLEAN,
        via \in {NoLane, <<":J", 0>>},
        shape \in {<<>>, << <<2000, 0>>, <<2500, 0>> >>},
        from_allow \in {<<>>, <<"pedestrian">>}, to_allow \in {<<>>, <<"pedestrian">>} }

MaxOffset == 4

\* what shapely computes for the offsets of the from- and to-lane (lines of two or three
\* points) and of the via lane
OffsetInputs ==
    { [from_left |-> lane, from_right |-> lane, to_left |-> lane, to_right |-> lane,
       via_left |-> via_left, via_right |-> via_right] :
        lane \in {Computed(2), Computed(3)},
        via_left \in OffsetFailures \cup {Computed(count) : count \in {0} \cup 2..MaxOffset},
        via_right \in OffsetFailures \cup {Computed(count) : count \in {0} \cup 2..MaxOffset} }

InitConnection ==
    /\ \E input \in ConnectionNets :
          /\ _link_objects(input).raised = None
          /\ net = _link_objects(input).value
    /\ InitGlobals
    /\ obs = NoObs
    /\ ret = [op |-> "Net", args |-> <<>>, result |-> Return(None)]

\* connection._generate_shape() on the connection of the network; the call changes no
\* object, so one call per run is followed
GenerateShape(offsets) ==
    /\ ret.op = "Net"
    /\ ret' = [op |-> "_generate_shape", args |-> [offsets |-> offsets],
               result |-> _generate_shape(net, net.connections[1], offsets)]
    /\ UNCHANGED <<net, Globals, obs>>

\* connection.get_as_3d_object(z, include_bottom_face)
GetAs3dObject(offsets, signed_area_negative, z, include_bottom_face) ==
    /\ ret.op = "Net"
    /\ ret' = [op |-> "get_as_3d_object",
               args |-> [offsets |-> offsets, signed_area_negative |-> signed_area_negative,
                         z |-> z, include_bottom_face |-> include_bottom_face],
               result |-> _Connection_get_as_3d_object(net, net.connections[1], offsets,
                                                       signed_area_negative, z, include_bottom_face)]
    /\ UNCHANGED <<net, Globals, obs>>

NextConnection ==
    \/ \E offsets \in OffsetInputs : GenerateShape(offsets)
    \/ \E offsets \in OffsetInputs, signed_area_negative \in BOOLEAN, include_bottom_face \in BOOLEAN :
          GetAs3dObject(offsets, signed_area_negative, 0, include_bottom_face)

SpecConnection == InitConnection /\ [][NextConnection]_vars

(***************************************************************************)
(* Generic parameters: material and extrusion height of the 3D objects     *)
(***************************************************************************)

\* float(x) for the parameter values of the inputs, in centimetres
float(x) ==
    IF x = "0.5" THEN Return(50)
    ELSE IF x = "2" THEN Return(200)
    ELSE Raise("ValueError")

\* extrude_height_param_transform(x): None stands for the default lambda (x is a string,
\* never None), "twice" for a caller's lambda x: 2*float(x)
extrude_height_param_transform(transform, x) ==
    IF transform = None \/ float(x).raised # None THEN float(x)
    ELSE Return(2 * float(x).value)

\* the height override the three get_as_3d_object methods share
param_extrude_height(params, extrude_height_param, transform, extrude_height) ==
    IF extrude_height_param # None /\ extrude_height_param \in DOMAIN params
    THEN extrude_height_param_transform(transform, params[extrude_height_param])
    ELSE Return(extrude_height)

\* self.params.get(key, default)
params_get(params, key, default) == IF key \in DOMAIN params THEN params[key] ELSE default

\* _Lane.get_as_3d_object; lane.lane_type is what self.lane_type() returns
_Lane_get_as_3d_object(lane, z, include_bottom_face, material_param, extrude_height_param, transform) ==
    IF is_empty(lane.shape) THEN Return(None)
    ELSE LET h == param_extrude_height(lane.params, extrude_height_param, transform,
                                       IF lane.lane_type = "pedestrian" THEN 15 ELSE 0)
             material == params_get(lane.params, material_param, lane.lane_type \o "_lane")
             oriented == orient(lane.shape, FALSE)
         IN  IF h.raised # None THEN h
             ELSE IF oriented.raised # None THEN oriented
             ELSE from_shape(oriented.value, lane.id, material, z, h.value, include_bottom_face, TRUE)

\* _Junction.get_as_3d_object: material is computed and "junction" is passed on
_Junction_get_as_3d_object(junction, z, extrude_height, include_bottom_face, material_param, extrude_height_param, transform) ==
    IF is_empty(junction.shape) THEN Return(None)
    ELSE LET h == param_extrude_height(junction.params, extrude_height_param, transform, extrude_height)
             material == params_get(junction.params, material_param, "junction")
             oriented == orient(junction.shape, FALSE)
         IN  IF h.raised # None THEN h
             ELSE IF oriented.raised # None THEN oriented
             ELSE from_shape(oriented.value, junction.id, "junction", z, h.value,
                             include_bottom_face, TRUE)

\* Additionals._Poly.get_as_3d_object
_Poly_get_as_3d_object(poly, z, extrude_height, include_bottom_face, material_param, extrude_height_param, transform) ==
    LET h == param_extrude_height(poly.params, extrude_height_param, transform, extrude_height)
        material == params_get(poly.params, material_param, poly.type \o "_poly")
    IN  IF h.raised # None THEN h
        ELSE from_shape(poly.shape, poly.id, material, z, h.value, include_bottom_face, poly.fill)

\* parameter bags: every subset of the keys "mat" and "h", the values as strings
ParamBags ==
    UNION { [keys -> {"asphalt", "0.5", "2"}] : keys \in SUBSET {"mat", "h"} }

EntityInputs ==
    { [kind |-> "lane", id |-> "E_0", shape |-> Polygon(Ring(1, 4)), params |-> params,
       lane_type |-> t, type |-> "", fill |-> TRUE] :
          params \in ParamBags, t \in {"pedestrian", "bicycle"} }
    \cup { [kind |-> "junction", id |-> "J", shape |-> Polygon(Ring(1, 4)), params |-> params,
            lane_type |-> "", type |-> "", fill |-> TRUE] : params \in ParamBags }
    \cup { [kind |-> "poly", id |-> "P", shape |-> shape, params |-> params,
            lane_type |-> "", type |-> "building", fill |-> shape.type = "Polygon"] :
              params \in ParamBags, shape \in {Polygon(Ring(1, 4)), LineString(Line(1, 3))} }

ParamInputs == {None, "mat", "h", "colour"}
TransformInputs == {None, "twice"}
ExtrudeHeightInputs == {0, 300}

InitParams ==
    /\ net = NoNet
    /\ InitGlobals
    /\ \E entity \in EntityInputs : obs = [entity |-> entity]
    /\ ret = [op |-> "import", args |-> <<>>, result |-> Return(None)]

\* entity.get_as_3d_object(z=0, ...); a lane takes no extrude_height argument
EntityGetAs3dObject(extrude_height, material_param, extrude_height_param, transform) ==
    /\ ret.op = "import"
    /\ obs.entity.kind = "lane" => extrude_height = 0
    /\ ret' = [op |-> "get_as_3d_object",
               args |-> [extrude_height |-> extrude_height, material_param |-> material_param,
                         extrude_height_param |-> extrude_height_param, transform |-> transform],
               result |->
                   IF obs.entity.kind = "lane"
                   THEN _Lane_get_as_3d_object(obs.entity, 0, FALSE, material_param,
                                               extrude_height_param, transform)
                   ELSE IF obs.entity.kind = "junction"
                   THEN _Junction_get_as_3d_object(obs.entity, 0, extrude_height, FALSE,
                                                   material_param, extrude_height_param, transform)
                   ELSE _Poly_get_as_3d_object(obs.entity, 0, extrude_height, FALSE,
                                               material_param, extrude_height_param, transform)]
    /\ UNCHANGED <<net, Globals, obs>>

NextParams ==
    \E extrude_height \in ExtrudeHeightInputs, material_param \in ParamInputs,
       extrude_height_param \in ParamInputs, transform \in TransformInputs :
        EntityGetAs3dObject(extrude_height, material_param, extrude_height_param, transform)

SpecParams == InitParams /\ [][NextParams]_vars

\* Net(file) from the elements of a network file.  A shape attribute is the sequence of
\* its coordinate pairs; the empty text has one part, which float() rejects.
ParseShape(text) == IF text = <<>> THEN Raise("ValueError") ELSE Return(text)

Abs(x) == IF x < 0 THEN -x ELSE x

\* length of a line whose segments are parallel to the axes
RECURSIVE PathLength(_, _)
PathLength(coords, k) ==
    IF k >= Len(coords) THEN 0
    ELSE Abs(coords[k + 1][1] - coords[k][1]) + Abs(coords[k + 1][2] - coords[k][2])
         + PathLength(coords, k + 1)

\* _Lane(attrib): LineString(coords) raises for fewer than two coordinate pairs
LaneFromElement(e) ==
    LET coords == ParseShape(e.shape)
    IN  IF coords.raised # None THEN coords
        ELSE IF Len(coords.value) < 2 THEN Raise("ValueError")
        ELSE Return(_Lane(e.id, e.index, e.allow, e.disallow, DEFAULT_LANE_WIDTH,
                          PathLength(coords.value, 1)))

\* _Junction(attrib) and its request children; shape is <<>> without the attribute, <<text>> with it
JunctionFromElement(e) ==
    LET coords == IF e.shape = <<>> THEN Return(<<>>) ELSE ParseShape(e.shape[1])
    IN  IF coords.raised # None THEN coords
        ELSE Return(WithRequests(_Junction(e.id, e.type, e.incLanes, e.intLanes, coords.value),
                                 e.requests, Len(e.requests)))

RECURSIVE ReadLanes(_, _, _)
ReadLanes(edge, lanes, k) ==
    IF edge.raised # None \/ k > Len(lanes) THEN edge
    ELSE LET lane == LaneFromElement(lanes[k])
         IN  IF lane.raised # None THEN lane
             ELSE ReadLanes(Return(append_lane(edge.value, lane.value)), lanes, k + 1)

RECURSIVE ReadEdges(_, _, _)
ReadEdges(r, edges, k) ==
    IF r.raised # None \/ k > Len(edges) THEN r
    ELSE IF edges[k].function = "walkingarea" THEN ReadEdges(r, edges, k + 1)
    ELSE LET e == edges[k]
             edge == ReadLanes(Return(_Edge(e.id, e.function, e.from, e.to)), e.lanes, 1)
         IN  IF edge.raised # None THEN edge
             ELSE ReadEdges(Return([r.value EXCEPT !.edges = Append(@, edge.value)]), edges, k + 1)

RECURSIVE ReadJunctions(_, _, _)
ReadJunctions(r, junctions, k) ==
    IF r.raised # None \/ k > Len(junctions) THEN r
    ELSE LET junction == JunctionFromElement(junctions[k])
         IN  IF junction.raised # None THEN junction
             ELSE ReadJunctions(Return([r.value EXCEPT !.junctions = Append(@, junction.value)]),
                                junctions, k + 1)

\* Net.__init__: the elements are read, then linked
Net_init(file) ==
    LET read == ReadJunctions(ReadEdges(Return(NoNet), file.edges, 1), file.junctions, 1)
    IN  IF read.raised # None THEN read
        ELSE _link_objects([read.value EXCEPT !.connections =
                [k \in DOMAIN file.connections |->
                    LET c == file.connections[k]
                    IN  _Connection(c.from, c.fromLane, c.to, c.toLane, c.via, c.shape)]])

\* shape attributes of lanes and junctions, by their number of coordinate pairs
LaneShapeInputs ==
    { <<>>, << <<0, 0>> >>, << <<0, 0>>, <<2000, 0>> >>, << <<0, 0>>, <<1000, 0>>, <<1000, 1000>> >> }

JunctionShapeInputs ==
    { <<>>, << <<>> >>, << << <<2000, 0>> >> >>, << << <<2000, 0>>, <<2500, 0>> >> >>,
      << << <<2000, 0>>, <<2500, 0>>, <<2500, 500>> >> >>,
      << << <<2000, 0>>, <<2500, 0>>, <<2500, 500>>, <<2000, 500>> >> >> }

LaneElement(edge_id, index, shape) ==
    [id |-> <<edge_id, index>>, index |-> index, allow |-> <<>>, disallow |-> <<>>, shape |-> shape]

\* an edge "E" of one or two lanes into junction "J", and an exit edge "O" into junction "K"
FileInputs ==
    { [edges |-> << [id |-> "E", function |-> function, from |-> "K", to |-> "J",
                     lanes |-> [p \in DOMAIN shapes |-> LaneElement("E", p - 1, shapes[p])]],
                    [id |-> "O", function |-> "normal", from |-> "J", to |-> "K",
                     lanes |-> << LaneElement("O", 0, << <<2500, 0>>, <<4500, 0>> >>) >>] >>,
       junctions |-> << [id |-> "J", type |-> "priority",
                         incLanes |-> [p \in DOMAIN shapes |-> <<"E", p - 1>>], intLanes |-> <<>>,
                         shape |-> junction_shape, requests |-> <<>>],
                        [id |-> "K", type |-> "dead_end", incLanes |-> << <<"O", 0>> >>,
                         intLanes |-> <<>>, shape |-> <<>>, requests |-> <<>>] >>,
       connections |-> << [from |-> "E", fromLane |-> 0, to |-> "O", toLane |-> 0,
                           via |-> NoLane, shape |-> <<>>] >>] :
        function \in {"normal", "walkingarea"},
        shapes \in UNION { [1..n -> LaneShapeInputs] : n \in 1..2 },
        junction_shape \in JunctionShapeInputs }

\* no Net built yet; Net(file) that raises leaves none either
InitBuild ==
    /\ net = NoNet
    /\ InitGlobals
    /\ obs = NoObs
    /\ ret = [op |-> "import", args |-> <<>>, result |-> Return(None)]

\* net = Net(file)
Build(file) ==
    /\ ret.op = "import"
    /\ LET r == Net_init(file)
       IN  /\ net' = IF r.raised = None THEN r.value ELSE NoNet
           /\ ret' = [op |-> "Net", args |-> <<file>>,
                      result |-> IF r.raised = None THEN Return(None) ELSE r]
    /\ UNCHANGED <<Globals, obs>>

NextBuild == \E file \in FileInputs : Build(file)

SpecBuild == InitBuild /\ [][NextBuild]_vars

\* The linking pass run a second time
NextLink == Relink

SpecLink == Init /\ [][NextLink]_vars

\* Networks for the request links: approach lane E_0 of junction "J", internal lanes :J_0,
\* :J_1, :J_2 and exit lane O_0. The first connection leaves E_0, the others leave the
\* internal lane :J_2 (second level); every reference is to an existing edge and lane.
RequestNet(type, incLanes, intLanes, indices, via, second) ==
    LET E == WithLanes(_Edge("E", "normal", "K", "J"),
                       << _Lane(<<"E", 0>>, 0, <<>>, <<>>, DEFAULT_LANE_WIDTH, 2000) >>, 1)
        O == WithLanes(_Edge("O", "normal", "J", "K"),
                       << _Lane(<<"O", 0>>, 0, <<>>, <<>>, DEFAULT_LANE_WIDTH, 2000) >>, 1)
        I == WithLanes(_Edge(":J", "internal", None, None),
                       [p \in 1..3 |-> _Lane(<<":J", p - 1>>, p - 1, <<>>, <<>>, DEFAULT_LANE_WIDTH, 500)],
                       3)
        J == WithRequests(_Junction("J", type, incLanes, intLanes, <<>>),
                          [k \in DOMAIN indices |-> _Request(indices[k], <<"0", "1">>)],
                          Len(indices))
    IN  [edges |-> <<I, E, O>>,
         junctions |-> <<J>>,
         connections |-> << _Connection("E", 0, "O", 0, via, <<>>) >>
                         \o [k \in DOMAIN second |-> _Connection(":J", 2, "O", 0, second[k], <<>>)]]

RequestNets ==
    { RequestNet(type, incLanes, intLanes, indices, via, second) :
        type \in {"priority", "internal"},
        incLanes \in {<<>>, << <<"E", 0>> >>},
        intLanes \in {<< <<":J", 0>> >>, << <<":J", 1>> >>, << <<":J", 0>>, <<":J", 1>> >>,
                      << <<":J", 1>>, <<":J", 0>> >>},
        indices \in {<<>>, <<0>>, <<1>>, <<0, 1>>},
        via \in {NoLane, <<":J", 0>>, <<":J", 2>>},
        second \in {<<>>, << <<":J", 1>> >>, <<NoLane>>, << <<":J", 2>> >>,
                    << <<":J", 1>>, <<":J", 0>> >>} }

InitRequests ==
    /\ net = NoNet
    /\ InitGlobals
    /\ obs = NoObs
    /\ ret = [op |-> "import", args |-> <<>>, result |-> Return(None)]

\* Net(file): the objects are read and _link_objects is run; an exception of the linking
\* pass leaves the caller without a Net
LinkObjects(input) ==
    /\ ret.op = "import"
    /\ net' = IF _link_objects(input).raised = None THEN _link_objects(input).value ELSE NoNet
    /\ ret' = [op |-> "_link_objects", args |-> <<input>>,
               result |-> IF _link_objects(input).raised = None THEN Return(None)
                          ELSE Raise(_link_objects(input).raised)]
    /\ UNCHANGED <<Globals, obs>>

NextRequests == \E input \in RequestNets : LinkObjects(input)

SpecRequests == InitRequests /\ [][NextRequests]_vars

\* The settings: every call that writes a module global, on a few networks
BusStopStyleInputs == {"USA", "NL"}

SettingsNets ==
    { ParseNet("normal", lanes, jn, [edge |-> <<>>, lane |-> <<>>], "dead_end") :
        lanes \in { << << <<"pedestrian">>, <<>> >>, << <<>>, <<>> >> >> },
        jn \in {j \in JunctionInputs : j.type \in {"absent", "priority"} /\ j.yield = (j.type = "priority")} }

InitSettings ==
    /\ \E input \in SettingsNets :
          /\ _link_objects(input).raised = None
          /\ net = _link_objects(input).value
    /\ InitGlobals
    /\ ret = Called("Net", NoLane, Return(None))
    /\ obs = NoObs

NextSettings ==
    \/ \E lane \in Lanes(net) : ObserveLaneMarkings(lane)
    \/ \E style \in StyleInputs, flag \in FlagInputs : SetStyle(style, flag)
    \/ \E factor \in ScaleInputs : set_stripe_width_scale(factor)
    \/ \E style \in StyleInputs, factor \in ScaleInputs, flag \in FlagInputs : plot(style, factor, flag)
    \/ \E style \in StyleInputs, factor \in ScaleInputs : generate_obj_text(style, factor)
    \/ \E style \in BusStopStyleInputs : set_bus_stop_style(style)

SpecSettings == InitSettings /\ [][NextSettings]_vars

----------------------------------------------------------------------------
(* Properties of the marking list *)

MarkingsReturned == ret.op = "_guess_lane_markings" /\ ret.result.raised = None
CalledLane == LaneOf(net, ret.lane)
CalledEdge == EdgeOf(net, ret.lane[1])

Count(markings, purpose) == Cardinality({i \in DOMAIN markings : markings[i].purpose = purpose})
The(markings, purpose) == markings[CHOOSE i \in DOMAIN markings : markings[i].purpose = purpose]

\* the lane is on an edge that produces lane markings
ProducesMarkings(edge, lane) ==
    /\ ~(edge.function \in {"internal", "crossing"})
    /\ lane.allows # {"ship"}
    /\ lane.allows # {"rail"}

\* C1: on an edge that produces lane markings, the call returns a list whenever the edge's
\* to-junction is resolved, and in every returned list, under either style, the lane with
\* index N-1 has exactly one 'center' and no 'lane' marking and every other lane exactly one
\* 'lane' and no 'center' marking.
C1_CenterOrLane ==
    (ret.op = "_guess_lane_markings" /\ ProducesMarkings(CalledEdge, CalledLane)) =>
        /\ CalledEdge.to_junction # None => ret.result.raised = None
        /\ ret.result.raised = None =>
              IF CalledLane.index = Len(CalledEdge.lanes) - 1
              THEN Count(ret.result.value, "center") = 1 /\ Count(ret.result.value, "lane") = 0
              ELSE Count(ret.result.value, "lane") = 1 /\ Count(ret.result.value, "center") = 0

C1_Witness ==
    /\ MarkingsReturned /\ ProducesMarkings(CalledEdge, CalledLane)
    /\ LANE_MARKINGS_STYLE = USA_STYLE
    /\ Len(CalledEdge.lanes) = 3 /\ CalledLane.index = 1
    /\ Count(ret.result.value, "lane") = 1

\* the centerline marking of the European style: solid, white, on the left edge of the lane
EurCenterline(lane, marking) ==
    /\ marking.dashes[2] = 0
    /\ marking.color = "w"
    /\ marking.alignment = [kind |-> "parallel_offset", of |-> lane.alignment,
                            distance |-> lane.width \div 2, side |-> "left"]

OneLaneEur ==
    /\ MarkingsReturned /\ ProducesMarkings(CalledEdge, CalledLane)
    /\ LANE_MARKINGS_STYLE = EUR_STYLE
    /\ Len(CalledEdge.lanes) = 1 /\ CalledLane.index = 0

C3_LaneDashes ==
    (/\ MarkingsReturned /\ ProducesMarkings(CalledEdge, CalledLane)
     /\ CalledLane.index < Len(CalledEdge.lanes) - 1) =>
        LET next == LaneOf(net, <<ret.lane[1], CalledLane.index + 1>>).allows
            this == CalledLane.allows
            bike == ("bicycle" \in this) # ("bicycle" \in next)
            car == ("passenger" \in this) # ("passenger" \in next)
        IN  /\ LANE_MARKINGS_STYLE \in {USA_STYLE, EUR_STYLE}
            /\ Count(ret.result.value, "lane") = 1
            /\ The(ret.result.value, "lane").dashes =
                  (CASE bike -> <<10000, 0>>
                     [] ~bike /\ car /\ "bicycle" \in this -> <<100, 300>>
                     [] ~bike /\ car /\ ~("bicycle" \in this) -> <<10000, 0>>
                     [] OTHER -> <<300, 900>>)

C3_Witness ==
    /\ MarkingsReturned /\ ProducesMarkings(CalledEdge, CalledLane)
    /\ LANE_MARKINGS_STYLE = USA_STYLE
    /\ CalledLane.index < Len(CalledEdge.lanes) - 1
    /\ The(ret.result.value, "lane").dashes = <<100, 300>>

\* C4 as stated: the lane with index 0 has one more, solid, 'outer' marking unless it is
\* pedestrian-only; a lane that allows pedestrians together with other classes still has it,
\* and no lane with another index has one.
C4_OuterUnlessPedestrianOnly ==
    (MarkingsReturned /\ ProducesMarkings(CalledEdge, CalledLane)) =>
        Count(ret.result.value, "outer") =
            IF CalledLane.index = 0 /\ CalledLane.allows # {"pedestrian"} THEN 1 ELSE 0

\* C4 amended: the lane with index 0 has one more, solid, 'outer' marking unless it allows
\* pedestrians without being open to all classes (pedestrian-only or pedestrians together
\* with some other classes); no lane with another index has one.
C4_OuterUnlessPedestrians ==
    (MarkingsReturned /\ ProducesMarkings(CalledEdge, CalledLane)) =>
        /\ Count(ret.result.value, "outer") =
              IF /\ CalledLane.index = 0
                 /\ ~("pedestrian" \in CalledLane.allows /\ CalledLane.allows # VClasses)
              THEN 1 ELSE 0
        /\ \A i \in DOMAIN ret.result.value :
              ret.result.value[i].purpose = "outer" =>
                  /\ ret.result.value[i].dashes[2] = 0
                  /\ ret.result.value[i].alignment.side = "right"

C4_Witness ==
    /\ MarkingsReturned /\ ProducesMarkings(CalledEdge, CalledLane)
    /\ CalledLane.index = 0
    /\ CalledLane.allows = {"pedestrian", "bicycle"}
    /\ Count(ret.result.value, "outer") = 0
    /\ Count(ret.result.value, "lane") = 1

\* C5: a lane of an internal edge, or one restricted to ship or to rail, has an empty marking
\* list under every style, stripe scale and stop line setting, whatever its junction.
C5_NoMarkings ==
    (/\ ret.op = "_guess_lane_markings"
     /\ \/ CalledEdge.function = "internal"
        \/ CalledLane.allows = {"ship"}
        \/ CalledLane.allows = {"rail"}) =>
        ret.result = Return(<<>>)

C5_Witness ==
    /\ ret.op = "_guess_lane_markings"
    /\ CalledLane.allows = {"rail"}
    /\ CalledEdge.function = "normal"
    /\ CalledEdge.to_junction # None
    /\ JunctionOf(net, CalledEdge.to_junction).type = "always_stop"
    /\ PLOT_STOP_LINES
    /\ ret.result = Return(<<>>)

CrossingMarking(lane, markings) ==
    /\ Len(markings) = 1
    /\ markings[1].purpose = "crossing"
    /\ markings[1].alignment = lane.alignment
    /\ markings[1].linewidth = lane.width
    /\ markings[1].dashes[2] > 0

\* C6 as stated: a lane of a crossing edge has exactly one marking under every style and stop
\* line setting: purpose 'crossing', along the lane centerline, as wide as the lane, dashed.
C6_CrossingAlways ==
    (ret.op = "_guess_lane_markings" /\ CalledEdge.function = "crossing") =>
        ret.result.raised = None /\ CrossingMarking(CalledLane, ret.result.value)

\* C6 amended: a lane of a crossing edge that is not restricted to ship or to rail has exactly
\* one marking under every style and stop line setting: purpose 'crossing', along the lane
\* centerline, as wide as the lane, dashed.
C6_Crossing ==
    (/\ ret.op = "_guess_lane_markings" /\ CalledEdge.function = "crossing"
     /\ CalledLane.allows # {"ship"} /\ CalledLane.allows # {"rail"}) =>
        ret.result.raised = None /\ CrossingMarking(CalledLane, ret.result.value)

C6_Witness ==
    /\ ret.op = "_guess_lane_markings" /\ CalledEdge.function = "crossing"
    /\ CalledLane.allows = {"pedestrian"}
    /\ PLOT_STOP_LINES
    /\ LANE_MARKINGS_STYLE = USA_STYLE
    /\ ret.result.raised = None /\ CrossingMarking(CalledLane, ret.result.value)

----------------------------------------------------------------------------
(* Properties of the lane queries *)

\* C7: lane_type is a total function of the allowance and the parent edge's function, with
\* exclusive checks in the order pedestrian-only ('crosswalk' on a crossing edge, else
\* 'pedestrian'), bicycle-only, ship-only, authority-only, empty ('none'), passenger not
\* allowed ('no_passenger'), else 'other'.
C7_LaneType ==
    ret.op = "lane_type" =>
        ret.result =
            Return(IF CalledLane.allows = {"pedestrian"}
                   THEN (IF CalledEdge.function = "crossing" THEN "crosswalk" ELSE "pedestrian")
                   ELSE IF CalledLane.allows = {"bicycle"} THEN "bicycle"
                   ELSE IF CalledLane.allows = {"ship"} THEN "ship"
                   ELSE IF CalledLane.allows = {"authority"} THEN "authority"
                   ELSE IF CalledLane.allows = {} THEN "none"
                   ELSE IF ~("passenger" \in CalledLane.allows) THEN "no_passenger"
                   ELSE "other")

C7_Witness ==
    /\ ret.op = "lane_type"
    /\ CalledLane.allows = {}
    /\ CalledEdge.function = "crossing"
    /\ ret.result = Return("none")

\* C8: with a resolved destination junction, _requires_stop_line is false for junction type
\* 'internal' or 'zipper' whatever the requests, true for 'always_stop' even without
\* requests, and otherwise true exactly when a request of the lane has a '1' in its response.
C8_RequiresStopLine ==
    (ret.op = "_requires_stop_line" /\ CalledEdge.to_junction # None) =>
        LET type == JunctionOf(net, CalledEdge.to_junction).type
            yields == \E k \in DOMAIN CalledLane.requests :
                         \E b \in DOMAIN CalledLane.requests[k].response :
                            CalledLane.requests[k].response[b] = "1"
        IN  /\ ret.result.raised = None
            /\ type \in {"internal", "zipper"} => ret.result.value = FALSE
            /\ type = "always_stop" => ret.result.value = TRUE
            /\ ~(type \in {"internal", "zipper", "always_stop"}) => ret.result.value = yields

C8_Witness ==
    /\ ret.op = "_requires_stop_line"
    /\ CalledEdge.to_junction # None
    /\ JunctionOf(net, CalledEdge.to_junction).type = "zipper"
    /\ \E k \in DOMAIN CalledLane.requests : HasOne(CalledLane.requests[k].response)
    /\ ret.result = Return(FALSE)

----------------------------------------------------------------------------
(* No hidden state *)

C10_StyleAndScaleOnly ==
    [][ (/\ obs'.lane # NoLane /\ obs'.lane = obs.lane
         /\ obs'.style = obs.style /\ obs'.scale = obs.scale) =>
            obs'.result = obs.result
      ]_vars

\* C10 amended: the marking list of a lane is determined by the network, the marking style,
\* the stripe scale and the stop line flag: two calls on the same lane under the same three
\* settings return the same list, whatever calls were made before either.
C10_ThreeSettings ==
    [][ (/\ obs'.lane # NoLane /\ obs'.lane = obs.lane
         /\ obs'.style = obs.style /\ obs'.scale = obs.scale
         /\ obs'.stop_lines = obs.stop_lines) =>
            obs'.result = obs.result
      ]_vars

C10_Witness ==
    /\ obs.lane # NoLane
    /\ ret.op = "_guess_lane_markings"
    /\ obs.result = ret.result
    /\ ret.result.raised = None
    /\ Count(ret.result.value, "stopline") = 1
    /\ BUS_STOP_STYLE = "USA"
    /\ LANE_MARKINGS_STYLE = EUR_STYLE
    /\ STRIPE_WIDTH_SCALE_FACTOR = 2

----------------------------------------------------------------------------
(* Linking *)

\* C17: an edge whose to-junction id matches no junction is linked with the reference left
\* None, and a _guess_lane_markings call on a lane of such an edge, with stop lines enabled,
\* returns a marking list instead of raising.
C17_UnresolvedNotFatal ==
    (/\ ret.op = "_guess_lane_markings"
     /\ CalledEdge.to_junction = None
     /\ PLOT_STOP_LINES) =>
        ret.result.raised = None

\* C18: a second run of the linking pass leaves every derived link as the first run left it
\* (lists with the same elements and multiplicities, references unchanged).
C18_RelinkIdempotent ==
    [][ ret'.op = "_link_objects" => net' = net ]_vars

----------------------------------------------------------------------------
(* Settings *)

\* C20: set_style with a style other than 'USA' or 'EUR' raises IndexError and changes
\* neither the marking style nor the stop line flag, whatever plot_stop_lines is passed;
\* after every call the marking style is 'USA' or 'EUR'.
C20_InvalidStyle ==
    [][ /\ \A style \in StyleInputs, flag \in FlagInputs :
              (SetStyle(style, flag) /\ style # <<>> /\ ~(style[1] \in {USA_STYLE, EUR_STYLE})) =>
                  /\ ret'.result = Raise("IndexError")
                  /\ LANE_MARKINGS_STYLE' = LANE_MARKINGS_STYLE
                  /\ PLOT_STOP_LINES' = PLOT_STOP_LINES
        /\ LANE_MARKINGS_STYLE' \in {USA_STYLE, EUR_STYLE}
      ]_vars

C20_Witness ==
    /\ ret = Called("set_style", NoLane, Raise("IndexError"))
    /\ LANE_MARKINGS_STYLE = USA_STYLE
    /\ PLOT_STOP_LINES = FALSE

----------------------------------------------------------------------------
(* Allowance *)

\* C15: for every mask A (all-true, all-false, mixed), the Allowance constructed from A's
\* allow string and A's disallow string has a mask equal to A's.
C15_StringRoundTrip ==
    (ret.op = "Allowance" /\ ret.args # <<>>) => ret.result.value = obs.mask

C15_Witness ==
    /\ ret.op = "Allowance"
    /\ ret.args = << <<"none">>, <<"all">> >>
    /\ obs.mask = {}

\* C16: A.allows('all') is true exactly when every bit of the mask is set, A.allows('none')
\* exactly when no bit is set, A + ~A allows every vehicle class, and neither the union nor
\* the complement changes A's own mask.
C16_AllNoneComplement ==
    [][ /\ (ret'.op = "allows" /\ ret'.args = <<"all">>) =>
              ret'.result = Return(\A i \in DOMAIN vClass_list : vClass_list[i] \in obs.mask)
        /\ (ret'.op = "allows" /\ ret'.args = <<"none">>) =>
              ret'.result = Return(\A i \in DOMAIN vClass_list : ~(vClass_list[i] \in obs.mask))
        /\ (ret'.op = "__add__" /\ ret'.args = <<"__invert__">>) =>
              \A i \in DOMAIN vClass_list : vClass_list[i] \in ret'.result.value
        /\ ret'.op \in {"__add__", "__invert__"} => obs'.mask = obs.mask
      ]_vars

C16_Witness ==
    /\ ret.op = "__add__"
    /\ ret.args = <<"__invert__">>
    /\ obs.mask = {"pedestrian", "bicycle"}

----------------------------------------------------------------------------
(* Object3D *)

\* the z levels and the plan coordinates of the vertices a face lists
FaceZ(mesh, face) == {mesh.vertices[face[j]][3] : j \in DOMAIN face}
FaceXY(mesh, face) == [j \in DOMAIN face |-> <<mesh.vertices[face[j]][1], mesh.vertices[face[j]][2]>>]

\* faces of the mesh lying at level z whose plan coordinates are the sequence coords
FlatFaces(mesh, coords, z) ==
    {f \in DOMAIN mesh.faces : FaceZ(mesh, mesh.faces[f]) = {z} /\ FaceXY(mesh, mesh.faces[f]) = coords}

\* quads joining the two levels over points of the ring
SideFaces(mesh, ring) ==
    {f \in DOMAIN mesh.faces : /\ Len(mesh.faces[f]) = 4
                               /\ Cardinality(FaceZ(mesh, mesh.faces[f])) = 2
                               /\ Range(FaceXY(mesh, mesh.faces[f])) \subseteq Range(ring)}

RECURSIVE SumOver(_, _)
SumOver(rings, k) == IF k > Len(rings) THEN 0 ELSE (Len(rings[k]) - 1) + SumOver(rings, k + 1)

\* C13: for a Polygon or MultiPolygon, per ring of n coordinates: with height 0 and the top
\* face included there is exactly one face, listing the n vertices of the ring, and no side
\* face; with height # 0 there are exactly n-1 quad side faces, one top face iff
\* include_top_face and one bottom face iff include_bottom_face, the bottom face listing
\* the ring in reverse; the face count of the mesh is the sum over the rings.
C13_ExtrudeFaces ==
    (ret.op = "from_shape" /\ ret.args.shape.type \in {"Polygon", "MultiPolygon"}) =>
        LET mesh == ret.result.value
            rings == ret.args.shape.outlines
            z == ret.args.z
            h == ret.args.extrude_height
            top == ret.args.include_top_face
            bottom == ret.args.include_bottom_face
        IN  /\ ret.result.raised = None
            /\ (h = 0 /\ top) =>
                  /\ Len(mesh.faces) = Len(rings)
                  /\ \A k \in DOMAIN rings :
                        /\ Cardinality(FlatFaces(mesh, rings[k], z)) = 1
                        /\ SideFaces(mesh, rings[k]) = {}
            /\ h # 0 =>
                  /\ Len(mesh.faces) = SumOver(rings, 1)
                                          + (IF top THEN Len(rings) ELSE 0)
                                          + (IF bottom THEN Len(rings) ELSE 0)
                  /\ \A k \in DOMAIN rings :
                        /\ Cardinality(SideFaces(mesh, rings[k])) = Len(rings[k]) - 1
                        /\ Cardinality(FlatFaces(mesh, rings[k], z + h)) = IF top THEN 1 ELSE 0
                        /\ Cardinality(FlatFaces(mesh, Reverse(rings[k]), z))
                              = IF bottom THEN 1 ELSE 0
                        /\ FlatFaces(mesh, rings[k], z) = {}

C13_Witness ==
    /\ ret.op = "from_shape"
    /\ ret.args.shape.type = "MultiPolygon"
    /\ ret.args.extrude_height = 15
    /\ ret.args.include_top_face /\ ret.args.include_bottom_face
    /\ Len(ret.result.value.faces) = 2 * (MaxRing - 1) + 4

\* the lines of the text that belong to the k-th object (k counts the "o" lines so far)
ObjectOf(text, p) == Cardinality({q \in 1..p : text[q].tag = "o"})

LinesOf(text, k, tag) ==
    LET P == {q \in DOMAIN text : text[q].tag = tag /\ ObjectOf(text, q) = k}
    IN  [j \in 1..Cardinality(P) |->
            text[CHOOSE q \in P : Cardinality({r \in P : r <= q}) = j].data]

\* vertices written for the objects before the k-th one
VerticesBefore(text, k) ==
    Cardinality({q \in DOMAIN text : text[q].tag = "v" /\ ObjectOf(text, q) < k})

LocalIndicesOk(object) ==
    \A list \in Range(object.faces) \cup Range(object.lines) :
        \A i \in DOMAIN list : list[i] \in 1..Len(object.vertices)

\* C14: every face and line index of a mesh built by from_shape lies in 1..(number of its
\* vertices); in the text written for a list of meshes every index of the k-th mesh is its
\* local index plus the number of vertices of the meshes before it, and so names a vertex
\* line written for that same mesh.
C14_IndicesLocalAndShifted ==
    /\ \A k \in DOMAIN obs.objects : LocalIndicesOk(obs.objects[k])
    /\ ret.op = "generate_obj_text_from_objects" =>
          LET text == ret.result.value
          IN  /\ ObjectOf(text, Len(text)) = Len(obs.objects)
              /\ \A k \in DOMAIN obs.objects :
                    LET object == obs.objects[k]
                        before == VerticesBefore(text, k)
                        own == Len(LinesOf(text, k, "v"))
                        f == LinesOf(text, k, "f")
                        l == LinesOf(text, k, "l")
                    IN  /\ Len(f) = Len(object.faces)
                        /\ Len(l) = Len(object.lines)
                        /\ \A j \in DOMAIN f : f[j] = Shifted(object.faces[j], before)
                        /\ \A j \in DOMAIN l : l[j] = Shifted(object.lines[j], before)
                        /\ \A list \in Range(f) \cup Range(l) :
                              \A i \in DOMAIN list : list[i] \in (before + 1)..(before + own)

C14_Witness ==
    /\ ret.op = "generate_obj_text_from_objects"
    /\ Len(obs.objects) = 2
    /\ Len(obs.objects[1].vertices) = 2 * MaxRing
    /\ Len(obs.objects[2].vertices) = 2 * (4 + MaxRing)
    /\ Len(obs.objects[2].faces) = (3 + (MaxRing - 1)) + 4

----------------------------------------------------------------------------
(* Construction *)

\* C19: constructing a lane whose shape attribute has fewer than 2 coordinate pairs, or a
\* junction whose shape attribute has fewer than 3, fails with an error at construction
\* time, and the entity is not added to the network.
C19_MalformedGeometry ==
    ret.op = "Net" =>
        LET file == ret.args[1]
            short_lane == \E e \in Range(file.edges) :
                              /\ e.function # "walkingarea"
                              /\ \E l \in Range(e.lanes) : Len(l.shape) < 2
            short_junctions == {j \in Range(file.junctions) : j.shape # <<>> /\ Len(j.shape[1]) < 3}
        IN  /\ short_lane => ret.result.raised # None
            /\ \A j \in short_junctions :
                  /\ ret.result.raised # None
                  /\ DictGet(net.junctions, j.id) = None

----------------------------------------------------------------------------
(* Connection shape *)

Connection == net.connections[1]

\* the point of the side's offset of the lane's centerline, by distance, at the position
\* counted in the direction of travel
OffsetPoint(lane, distance, side, at) == Coord(parallel_offset(lane.alignment, distance, side), at)

\* C11: when the via offset fails on both sides, _generate_shape raises nothing and returns
\* the closed polygon through from-exit-right, to-entry-right, to-entry-left,
\* from-exit-left and the first point again; in general the boundary is from-exit-right,
\* the interior points of the right via offset in the direction of travel, to-entry-right,
\* to-entry-left, the interior points of the left via offset against the direction of
\* travel, from-exit-left and the first point again.
C11_ConnectionBoundary ==
    (/\ ret.op = "_generate_shape"
     /\ Connection.from_lane # NoLane /\ Connection.to_lane # NoLane
     /\ Connection.via_lane # NoLane) =>
        LET o == ret.args.offsets
            from_lane == LaneOf(net, Connection.from_lane)
            to_lane == LaneOf(net, Connection.to_lane)
            via_lane == LaneOf(net, Connection.via_lane)
            from_exit_right == OffsetPoint(from_lane, from_lane.width \div 2, "right", o.from_right.count)
            from_exit_left == OffsetPoint(from_lane, from_lane.width \div 2, "left", o.from_left.count)
            to_entry_right == OffsetPoint(to_lane, to_lane.width \div 2, "right", 1)
            to_entry_left == OffsetPoint(to_lane, to_lane.width \div 2, "left", 1)
            right_interior ==
                [j \in 1..(o.via_right.count - 2) |->
                    OffsetPoint(via_lane, from_lane.width \div 2, "right", j + 1)]
            left_interior_reversed ==
                [j \in 1..(o.via_left.count - 2) |->
                    OffsetPoint(via_lane, from_lane.width \div 2, "left", o.via_left.count - j)]
            boundary == ret.result.value.outlines[1]
        IN  /\ ret.result.raised = None
            /\ ret.result.value.type = "Polygon"
            /\ boundary = <<from_exit_right>> \o right_interior \o <<to_entry_right, to_entry_left>>
                              \o left_interior_reversed \o <<from_exit_left, from_exit_right>>
            /\ (o.via_left.raised # None /\ o.via_right.raised # None) =>
                    boundary = <<from_exit_right, to_entry_right, to_entry_left, from_exit_left,
                                 from_exit_right>>

C11_Witness ==
    /\ ret.op = "_generate_shape"
    /\ ret.args.offsets.via_left = Failed("ValueError")
    /\ ret.args.offsets.via_right = Failed("NotImplementedError")
    /\ ret.result.raised = None
    /\ Len(ret.result.value.outlines[1]) = 5

\* C12: get_as_3d_object uses the explicit shape whenever the connection has one, and then
\* succeeds even if some of the from/via/to lane references are unresolved; without an
\* explicit shape and with at least one of the three references unresolved it raises
\* ReferenceError and builds no object.
C12_ExplicitShapePrecedence ==
    ret.op = "get_as_3d_object" =>
        /\ Connection.shape # NoShape => ret.result.raised = None
        /\ (/\ Connection.shape = NoShape
            /\ \/ Connection.from_lane = NoLane
               \/ Connection.to_lane = NoLane
               \/ Connection.via_lane = NoLane) =>
                ret.result.raised = "ReferenceError"

(***************************************************************************)
(* C21: unknown vehicle-class names                                        *)
(***************************************************************************)

UnknownClass(word) == ~(word \in VClasses \cup {"all", "none"})

\* C21: an unknown vehicle-class name is reported as an error both by a membership
\* test and by a construction whose allow or disallow string contains it.
C21_UnknownClassReported ==
    /\ (ret.op = "allows" /\ UnknownClass(ret.args[1])) => ret.result.raised # None
    /\ (ret.op = "Allowance"
            /\ \E k \in {1, 2} : \E i \in DOMAIN ret.args[k] : UnknownClass(ret.args[k][i]))
        => ret.result.raised # None

(***************************************************************************)
(* C22: parameter overrides of material and extrusion height               *)
(***************************************************************************)

DefaultMaterial(entity) ==
    IF entity.kind = "lane" THEN entity.lane_type \o "_lane"
    ELSE IF entity.kind = "junction" THEN "junction"
    ELSE entity.type \o "_poly"

DefaultHeight(entity, extrude_height) ==
    IF entity.kind = "lane" THEN (IF entity.lane_type = "pedestrian" THEN 15 ELSE 0)
    ELSE extrude_height

\* the height of a mesh built at z = 0 is the z coordinate of its first (top) vertex
MeshHeight(object) == object.vertices[1][3]

\* C22: for lanes, junctions and polygons the mesh's material is the value of the
\* material_param key when the bag has it and the entity's default otherwise, and the
\* extrusion height is the transform of the extrude_height_param value when the bag has
\* that key (an exception of the transform is the call's exception) and the default
\* height otherwise.
C22_ParamOverrides ==
    ret.op = "get_as_3d_object" =>
        LET entity == obs.entity
            a == ret.args
            keyed == a.extrude_height_param \in DOMAIN entity.params
            height == IF keyed
                      THEN extrude_height_param_transform(a.transform,
                                                          entity.params[a.extrude_height_param])
                      ELSE Return(DefaultHeight(entity, a.extrude_height))
        IN  /\ ret.result.raised = height.raised
            /\ ret.result.raised = None =>
                /\ MeshHeight(ret.result.value) = height.value
                /\ ret.result.value.material =
                       (IF a.material_param \in DOMAIN entity.params
                        THEN entity.params[a.material_param] ELSE DefaultMaterial(entity))

(***************************************************************************)
(* C23: what plot and generate_obj_text do to the settings                 *)
(***************************************************************************)

ValidStyle(style) == style # <<>> /\ style[1] \in {USA_STYLE, EUR_STYLE}

\* C23 as stated: plot and generate_obj_text leave the marking style unchanged when called
\* without a style and set it when called with a valid one; both always set the stripe
\* scale to their argument; generate_obj_text never changes the stop line flag and plot
\* changes it only when plot_stop_lines is given.
C23_AlwaysSetsScale ==
    [][ /\ \A style \in StyleInputs, factor \in ScaleInputs, flag \in FlagInputs :
              \/ /\ style = <<>> => LANE_MARKINGS_STYLE' = LANE_MARKINGS_STYLE
                 /\ ValidStyle(style) => LANE_MARKINGS_STYLE' = style[1]
                 /\ STRIPE_WIDTH_SCALE_FACTOR' = factor
                 /\ flag = <<>> => PLOT_STOP_LINES' = PLOT_STOP_LINES
              \/ ~(ret'.op = "plot" /\ plot(style, factor, flag))
        /\ \A style \in StyleInputs, factor \in ScaleInputs :
              \/ /\ style = <<>> => LANE_MARKINGS_STYLE' = LANE_MARKINGS_STYLE
                 /\ ValidStyle(style) => LANE_MARKINGS_STYLE' = style[1]
                 /\ STRIPE_WIDTH_SCALE_FACTOR' = factor
                 /\ PLOT_STOP_LINES' = PLOT_STOP_LINES
              \/ ~(ret'.op = "generate_obj_text" /\ generate_obj_text(style, factor))
      ]_vars

\* C23 amended: as above, but the stripe scale is set to the argument when the style is
\* absent or valid; a call with an invalid style raises IndexError and leaves the marking
\* style, the stripe scale and the stop line flag as they were. (Each step either has the
\* effects listed for the arguments or is not a call with those arguments.)
C23_SettingsFrame ==
    [][ /\ \A style \in StyleInputs, factor \in ScaleInputs, flag \in FlagInputs :
              \/ /\ style = <<>> => LANE_MARKINGS_STYLE' = LANE_MARKINGS_STYLE
                 /\ ValidStyle(style) => LANE_MARKINGS_STYLE' = style[1]
                 /\ (style = <<>> \/ ValidStyle(style)) => STRIPE_WIDTH_SCALE_FACTOR' = factor
                 /\ flag = <<>> => PLOT_STOP_LINES' = PLOT_STOP_LINES
                 /\ (style # <<>> /\ ~ValidStyle(style)) =>
                       /\ ret'.result = Raise("IndexError")
                       /\ UNCHANGED Globals
              \/ ~(ret'.op = "plot" /\ plot(style, factor, flag))
        /\ \A style \in StyleInputs, factor \in ScaleInputs :
              \/ /\ style = <<>> => LANE_MARKINGS_STYLE' = LANE_MARKINGS_STYLE
                 /\ ValidStyle(style) => LANE_MARKINGS_STYLE' = style[1]
                 /\ (style = <<>> \/ ValidStyle(style)) => STRIPE_WIDTH_SCALE_FACTOR' = factor
                 /\ PLOT_STOP_LINES' = PLOT_STOP_LINES
                 /\ (style # <<>> /\ ~ValidStyle(style)) =>
                       /\ ret'.result = Raise("IndexError")
                       /\ UNCHANGED Globals
              \/ ~(ret'.op = "generate_obj_text" /\ generate_obj_text(style, factor))
      ]_vars

\* generate_obj_text has run under the 'USA' style set earlier, has set the scale and has
\* left the stop line flag that an earlier call switched off
C23_Witness ==
    /\ ret.op = "generate_obj_text"
    /\ ret.result.raised = None
    /\ LANE_MARKINGS_STYLE = USA_STYLE
    /\ STRIPE_WIDTH_SCALE_FACTOR = 2
    /\ PLOT_STOP_LINES = FALSE

(***************************************************************************)
(* C24: the bus stop style                                                 *)
(***************************************************************************)

\* C24: set_bus_stop_style(s) sets the bus stop style to s whenever s is one of the four
\* valid styles, whatever calls preceded it, and raises ValueError leaving the style
\* unchanged for any other value; the bus stop style is always one of the four.
C24_BusStopStyleValid ==
    [][ /\ \A style \in BusStopStyleInputs :
              set_bus_stop_style(style) =>
                  IF style \in BUS_STOP_STYLES
                  THEN ret'.result.raised = None /\ BUS_STOP_STYLE' = style
                  ELSE ret'.result.raised = "ValueError" /\ BUS_STOP_STYLE' = BUS_STOP_STYLE
        /\ BUS_STOP_STYLE' \in BUS_STOP_STYLES
      ]_vars

(***************************************************************************)
(* C25: the number of stop line markings                                   *)
(***************************************************************************)

\* requiresStopLine(lane), for a call that returned a list
CalledLaneRequiresStopLine ==
    /\ CalledEdge.to_junction # None
    /\ _requires_stop_line(net, CalledLane) = Return(TRUE)

StopLinesSolid ==
    \A i \in DOMAIN ret.result.value :
        ret.result.value[i].purpose = "stopline" => ret.result.value[i].dashes[2] = 0

RulesUsed == IF CalledLane.stop_offsets # <<>> THEN CalledLane.stop_offsets
             ELSE CalledEdge.stop_offsets

RuleOffsets == [i \in DOMAIN RulesUsed |-> RulesUsed[i][1]]

\* the classes of the lane are all covered by the rules used
RulesCoverLane == CalledLane.allows \subseteq UNION { RulesUsed[i][2] : i \in DOMAIN RulesUsed }

\* C26 as stated: the locations are the offsets of the rules used, in rule order, plus one
\* location 0 exactly when the classes of the rules used do not cover the lane's allowance.
C26_ImplicitZeroWheneverUncovered ==
    ret.op = "get_stop_line_locations" =>
        ret.result = Return(IF RulesCoverLane THEN RuleOffsets ELSE Append(RuleOffsets, 0))

\* C26 amended: the location 0 is added exactly when the classes of the rules used do not
\* cover the lane's allowance and no rule used has the offset 0 already.
C26_StopLineLocations ==
    ret.op = "get_stop_line_locations" =>
        ret.result = Return(IF RulesCoverLane \/ \E i \in DOMAIN RuleOffsets : RuleOffsets[i] = 0
                            THEN RuleOffsets ELSE Append(RuleOffsets, 0))

\* a lane with a rule of its own for bicycles on an edge that has a rule for all classes
C26_Witness ==
    /\ ret.op = "get_stop_line_locations"
    /\ CalledLane.stop_offsets # <<>>
    /\ CalledEdge.stop_offsets # <<>>
    /\ ret.result = Return(<<100, 0>>)

(***************************************************************************)
(* C27, C30: the request links                                             *)
(***************************************************************************)

\* the request of junction J for an internal lane id: the first request whose index is
\* the position of the id in J's internal lane list; <<>> when there is none
RequestFor(J, lane_id) ==
    LET position == IndexOf(J.intLane_ids, lane_id)
        matching == SelectSeq(J.requests, LAMBDA r : r.index = position)
    IN  IF lane_id = NoLane \/ position = -1 \/ matching = <<>> THEN <<>> ELSE <<matching[1]>>

RECURSIVE Concat(_)
Concat(seqs) == IF seqs = <<>> THEN <<>> ELSE Head(seqs) \o Concat(Tail(seqs))

\* the connections that leave a lane id, in the order of the connection list
Leaving(lane_id) ==
    SelectSeq(net.connections, LAMBDA c : <<c.from_edge_id, c.from_lane_index>> = lane_id)

\* what one outgoing connection of an incoming lane of J contributes
Contribution(J, c) ==
    IF c.via_id = NoLane THEN <<>>
    ELSE IF RequestFor(J, c.via_id) # <<>> THEN RequestFor(J, c.via_id)
    ELSE Concat([k \in DOMAIN Leaving(c.via_id) |-> RequestFor(J, Leaving(c.via_id)[k].via_id)])

ExpectedRequests(L) ==
    LET Js == SelectSeq(net.junctions,
                        LAMBDA J : J.type # "internal" /\ \E i \in DOMAIN J.incLanes : J.incLanes[i] = L)
        out == LaneOf(net, L).outgoing_connections
    IN  IF Js = <<>> THEN <<>>
        ELSE Concat([k \in DOMAIN out |-> Contribution(Js[1], net.connections[out[k]])])

Linked == ret.op = "_link_objects" /\ ret.result.raised = None

\* C27: after linking, the request list of every incoming lane of a non-internal junction J
\* holds, for each outgoing connection with a via lane, the request of J at the position of
\* the via lane in J's internal lane list when there is one, else the requests found in
\* that way for the connections leaving the via lane; connections without a via lane add
\* nothing and a lane that is an incoming lane of no such junction has no requests.
C27_RequestLinks ==
    Linked => \A L \in Lanes(net) : LaneOf(net, L).requests = ExpectedRequests(L)

\* the requests of E_0 come from the second level
C27_Witness ==
    /\ Linked
    /\ RequestFor(net.junctions[1], net.connections[1].via_id) = <<>>
    /\ Len(LaneOf(net, <<"E", 0>>).requests) = 2
    /\ LaneOf(net, <<"E", 0>>).requests[1].index # LaneOf(net, <<"E", 0>>).requests[2].index

\* C30: the linking pass completes without raising on every network whose references all
\* exist, also when a second-level connection has no via lane or a via lane that is not an
\* internal lane of the junction.
C30_LinkingCompletes ==
    ret.op = "_link_objects" => ret.result.raised = None

(***************************************************************************)
(* C28: open line geometry                                                 *)
(***************************************************************************)

\* C28: from_shape on a LineString or MultiLineString with height 0 returns a mesh without
\* faces and with one line entry per constituent line, the entry of a line listing the
\* indices of all vertices of that line, so that every vertex is in some line entry,
\* whatever top or bottom face was asked for.
C28_LinesPerConstituent ==
    (/\ ret.op = "from_shape"
     /\ ret.args.shape.type \in {"LineString", "MultiLineString"}
     /\ ret.args.extrude_height = 0) =>
        /\ ret.result.raised = None
        /\ LET object == ret.result.value
               outlines == ret.args.shape.outlines
           IN  /\ object.faces = <<>>
               /\ Len(object.lines) = Len(outlines)
               /\ \A k \in DOMAIN object.lines : Len(object.lines[k]) = Len(outlines[k])
               /\ \A v \in DOMAIN object.vertices :
                     \E k \in DOMAIN object.lines : v \in Range(object.lines[k])

(***************************************************************************)
(* C29: the planar straight-line graph of a polygon with holes             *)
(***************************************************************************)

\* the rings of a polygon, exterior first
RingsOf(polygon) == <<polygon.exterior>> \o polygon.interiors

\* the number of distinct vertices of the k-th ring, and the index of its first vertex
RingSize(polygon, k) == Len(RingsOf(polygon)[k]) - 1
RingStart(polygon, k) == SumOver(SubSeq(RingsOf(polygon), 1, k - 1), 1)
RingIndices(polygon, k) == RingStart(polygon, k)..(RingStart(polygon, k) + RingSize(polygon, k) - 1)

\* the vertex reached from v after `steps` segments
RECURSIVE Follow(_, _, _)
Follow(segments, v, steps) ==
    IF steps = 0 THEN v
    ELSE Follow(segments,
                segments[CHOOSE s \in DOMAIN segments : segments[s][1] = v][2],
                steps - 1)

GraphOfPolygon(tri, polygon) ==
    LET K == DOMAIN RingsOf(polygon)
    IN  /\ Len(tri.vertices) = SumOver(RingsOf(polygon), 1)
        /\ \A v \in 0..(Len(tri.vertices) - 1) :
              /\ Cardinality({s \in DOMAIN tri.segments : tri.segments[s][1] = v}) = 1
              /\ Cardinality({s \in DOMAIN tri.segments : tri.segments[s][2] = v}) = 1
        /\ \A s \in DOMAIN tri.segments :
              \E k \in K : tri.segments[s][1] \in RingIndices(polygon, k)
                           /\ tri.segments[s][2] \in RingIndices(polygon, k)
        /\ \A k \in K :
              { Follow(tri.segments, RingStart(polygon, k), steps) : steps \in 1..RingSize(polygon, k) }
                  = RingIndices(polygon, k)
        /\ IF polygon.interiors = <<>> THEN ~("holes" \in DOMAIN tri)
           ELSE "holes" \in DOMAIN tri /\ Len(tri.holes) = Len(polygon.interiors)

\* C29: the graph handed to the triangulation for a polygon has the distinct vertices of
\* all its rings, segments that form one closed cycle per ring over exactly that ring's
\* vertex indices (one outgoing and one incoming segment per vertex, no segment between
\* two rings), and one hole marker per hole, the 'holes' entry being left out without holes;
\* for a multi-geometry this holds of the graph of each of its polygons.
C29_PlanarGraph ==
    (ret.op = "triangulate_polygon_constrained" /\ ret.result.raised = None) =>
        LET polygons == IF ret.args[1].type = "Polygon" THEN <<ret.args[1]>>
                        ELSE SelectSeq(ret.args[1].parts, LAMBDA part : part.type = "Polygon")
        IN  /\ Len(ret.result.value) = Len(polygons)
            /\ \A k \in DOMAIN polygons : GraphOfPolygon(ret.result.value[k], polygons[k])

\* a polygon with two holes of different sizes
C29_Witness ==
    /\ ret.op = "triangulate_polygon_constrained"
    /\ ret.result.raised = None
    /\ ret.args[1].type = "Polygon"
    /\ Len(ret.args[1].interiors) = 2
    /\ Len(ret.args[1].interiors[1]) # Len(ret.args[1].interiors[2])
    /\ Len(ret.result.value[1].holes) = 2

====
